---- MODULE Spec2Model ----
(***************************************************************************)
(* Model of katdal's CategoricalData container (src/katdal/categorical.py):*)
(* a series of sensor events stored as a vocabulary (unique_values), one   *)
(* vocabulary index per event (indices) and the dump of each event plus a  *)
(* final sentinel (events).                                                *)
(*                                                                         *)
(* Python sequences are 0-based; the model keeps the 0-based numbers of    *)
(* the source (vocabulary indices, array positions) and reads TLA+         *)
(* sequences through At / Slice / Take.                                    *)
(***************************************************************************)
EXTENDS Integers, Sequences, FiniteSets, TLC

\* ------------------------------------------------------------------ bounds
\* Largest dump number used for events, queries and segment starts.
MaxDump == 4
\* Largest number of sensor events (segments) of a constructed series; add
\* does not grow a series beyond MaxSeg + 1 events.
MaxSeg == 3
\* Largest number of series given to concatenate_categorical on their own.
MaxParts == 2
\* Largest number of dumps of the grid given to sensor_to_categorical.
MaxGrid == 3
\* Largest number of sensor events given to sensor_to_categorical.
MaxSamples == 3
\* Number of distinct sensor values in use.
NumValues == 2
\* Largest number of dumps in one multi-dump query.
MaxKey == 2

ValueNames == <<"a", "b", "c", "d", "e">>
Values == {ValueNames[i] : i \in 1..NumValues}
\* Python's None (the default of add's value parameter).
None == "None"
Dumps == 0..MaxDump

\* ----------------------------------------------------- sequence primitives
Range(s) == {s[i] : i \in 1..Len(s)}
Min2(a, b) == IF a <= b THEN a ELSE b
Abs(x) == IF x < 0 THEN -x ELSE x

\* s[i] of a 0-based Python sequence.
At(s, i) == s[i + 1]
\* s[-1].
Last(s) == s[Len(s)]
\* s[a:b] of a Python sequence, 0 <= a, 0 <= b (the slice clamps to the length).
Slice(s, a, b) == IF a >= Min2(b, Len(s)) THEN <<>> ELSE SubSeq(s, a + 1, Min2(b, Len(s)))
\* s[positions] for an integer index array (numpy fancy indexing).
Take(s, positions) == [k \in 1..Len(positions) |-> At(s, positions[k])]

\* np.nonzero(mask)[0]: the 0-based positions of the true entries, ascending.
RECURSIVE nonzero(_)
nonzero(mask) ==
    IF mask = <<>> THEN <<>>
    ELSE LET n == Len(mask)
             rest == nonzero(SubSeq(mask, 1, n - 1))
         IN  IF mask[n] THEN Append(rest, n - 1) ELSE rest

\* np.diff(a): a[i+1] - a[i].
diff(a) == [i \in 1..(IF Len(a) = 0 THEN 0 ELSE Len(a) - 1) |-> a[i + 1] - a[i]]

\* A lookup that searches with side='left': a dump on a boundary is given to the
\* segment that ends there.
searchsorted_right_as_left(a, v) == Cardinality({i \in 1..Len(a) : a[i] < v})

\* ndarray.searchsorted on a non-decreasing array: the insertion point that
\* keeps the array sorted, left of equal entries ...
searchsorted_left(a, v) == Cardinality({i \in 1..Len(a) : a[i] < v})
\* ... or right of them (side='right').
searchsorted_right(a, v) == Cardinality({i \in 1..Len(a) : a[i] <= v})

\* list.index(v): position of the first element equal to v (v is in the list).
ListIndex(s, v) == CHOOSE i \in 0..(Len(s) - 1) : At(s, i) = v /\ \A j \in 0..(i - 1) : At(s, j) # v

\* The ascending sequence of the elements of a finite set of integers.
RECURSIVE SortedSeq(_)
SortedSeq(S) ==
    IF S = {} THEN <<>>
    ELSE LET m == CHOOSE x \in S : \A y \in S : y <= x
         IN  Append(SortedSeq(S \ {m}), m)

\* ---------------------------------------------------------- unique_in_order
\* The keys of OrderedDict(zip(elements, ...)): each distinct element once, in
\* the order of its first occurrence.
RECURSIVE OrderedKeys(_, _)
OrderedKeys(elements, seen) ==
    IF elements = <<>> THEN seen
    ELSE OrderedKeys(Tail(elements),
                     IF Head(elements) \in Range(seen) THEN seen
                     ELSE Append(seen, Head(elements)))

\* unique_in_order(elements, return_inverse=True).
unique_in_order(elements) ==
    LET lookup == OrderedKeys(elements, <<>>)
    IN  [unique_elements |-> lookup,
         inverse |-> [i \in 1..Len(elements) |-> ListIndex(lookup, elements[i])]]

\* ------------------------------------------------------------- the container
\* A container is a record [uv, idx, ev]: unique_values, indices, events.
Series(uv, idx, ev) == [uv |-> uv, idx |-> idx, ev |-> ev]

\* A constructor that cuts events down to one more than the values.
CategoricalData_trimmed(sensor_values, evs) ==
    LET lookup == OrderedKeys(sensor_values, <<>>)
    IN  Series(lookup,
               [i \in 1..Len(sensor_values) |-> ListIndex(lookup, sensor_values[i])],
               Slice(evs, 0, Len(sensor_values) + 1))

\* CategoricalData.__init__: no check relates the two lengths.
CategoricalData(sensor_values, evs) ==
    LET u == unique_in_order(sensor_values)
    IN  Series(u.unique_elements, u.inverse, evs)

\* A lookup that clips the event positions into range (as partition does)
\* instead of raising.
_lookup_clipped(s, dumps) ==
    LET preceding_events == [k \in 1..Len(dumps) |-> Cardinality({i \in 1..Len(s.ev) : s.ev[i] <= dumps[k]}) - 1]
        clipped == [k \in 1..Len(dumps) |->
                       IF preceding_events[k] < 0 THEN 0
                       ELSE IF preceding_events[k] >= Len(s.idx) THEN Len(s.idx) - 1
                       ELSE preceding_events[k]]
    IN  IF Len(s.idx) = 0 THEN [raised |-> "IndexError", indices |-> <<>>]
        ELSE [raised |-> "", indices |-> Take(s.idx, clipped)]

\* CategoricalData._lookup for a sequence of dumps: [raised, indices].
_lookup(s, dumps) ==
    LET preceding_events == [k \in 1..Len(dumps) |-> searchsorted_right(s.ev, dumps[k]) - 1]
        outside == \E k \in 1..Len(dumps) :
                       \/ preceding_events[k] < 0
                       \/ preceding_events[k] >= Len(s.idx)
    IN  IF outside THEN [raised |-> "IndexError", indices |-> <<>>]
        ELSE [raised |-> "", indices |-> Take(s.idx, preceding_events)]

\* The dumps a key of __getitem__ stands for. A key is an int, a sequence of
\* ints or a slice start:stop; the slice becomes
\* range(*slice.indices(events[-1])), which clamps both ends to events[-1].
KeyDumps(s, key) ==
    IF key.kind = "slice"
    THEN LET stop == Min2(key.stop, Last(s.ev))
             start == Min2(key.start, Last(s.ev))
         IN  [k \in 1..(IF stop > start THEN stop - start ELSE 0) |-> start + k - 1]
    ELSE key.dumps

\* CategoricalData.__getitem__: [raised, scalar, vals]; an int key returns the
\* single value vals[1], any other key the list vals. self.unique_values[index]
\* raises IndexError for an index past the end of the list.
getitem(s, key) ==
    IF key.kind = "slice" /\ s.ev = <<>>
    THEN [raised |-> "IndexError", scalar |-> FALSE, vals |-> <<>>]
    ELSE LET found == _lookup(s, KeyDumps(s, key))
         IN  IF found.raised # ""
             THEN [raised |-> found.raised, scalar |-> key.kind = "int", vals |-> <<>>]
             ELSE IF \E k \in 1..Len(found.indices) : found.indices[k] >= Len(s.uv)
             THEN [raised |-> "IndexError", scalar |-> key.kind = "int", vals |-> <<>>]
             ELSE [raised |-> "", scalar |-> key.kind = "int",
                   vals |-> [k \in 1..Len(found.indices) |-> At(s.uv, found.indices[k])]]

\* The value held at one dump, or None where __getitem__ raises.
ValueAt(s, d) ==
    LET r == getitem(s, [kind |-> "int", dumps |-> <<d>>, start |-> 0, stop |-> 0])
    IN  IF r.raised # "" THEN None ELSE r.vals[1]

\* ------------------------------------------------------------- comparisons
\* The segments whose dump range start:end holds dump d, as 0-based positions
\* n of the loop over zip(self.events[:-1], self.events[1:]).
Covering(s, d) == {n \in 0..(Len(s.ev) - 2) : At(s.ev, n) <= d /\ d < At(s.ev, n + 1)}

\* CategoricalData._bool_per_dump(bool_per_value): [raised, vals]. The array
\* comes from np.empty(self.events[-1]) and each segment writes its bool over
\* its own dumps start:end, the later segment over the earlier; a dump that no
\* segment covers keeps what np.empty left there, which is the entry of fill.
_bool_per_dump(s, bool_per_value, fill) ==
    IF \E i \in 1..Len(s.idx) : s.idx[i] >= Len(bool_per_value)
    THEN [raised |-> "IndexError", vals |-> <<>>]
    ELSE IF Len(s.ev) - 1 > Len(s.idx)
    THEN [raised |-> "IndexError", vals |-> <<>>]
    ELSE [raised |-> "",
          vals |-> [k \in 1..Last(s.ev) |->
                       IF Covering(s, k - 1) = {} THEN fill[k]
                       ELSE At(bool_per_value,
                               At(s.idx, CHOOSE n \in Covering(s, k - 1) :
                                             \A m \in Covering(s, k - 1) : m <= n))]]

\* CategoricalData.__eq__(other) and __ne__(other).
eq(s, other, fill) == _bool_per_dump(s, [i \in 1..Len(s.uv) |-> s.uv[i] = other], fill)
ne(s, other, fill) == _bool_per_dump(s, [i \in 1..Len(s.uv) |-> s.uv[i] # other], fill)

\* An add that puts a new event just before the final event, wherever the
\* event belongs.
add_before_final(s, event, value) ==
    LET known == value \in Range(s.uv)
        found == _lookup(s, <<event>>)
        uv1 == IF value # None /\ ~known THEN Append(s.uv, value) ELSE s.uv
        value_index == IF value # None
                       THEN (IF known THEN ListIndex(s.uv, value) ELSE Len(s.uv))
                       ELSE found.indices[1]
        event_index == searchsorted_left(s.ev, event)
        before == IF event_index < Len(s.ev) /\ At(s.ev, event_index) = event
                  THEN event_index ELSE Len(s.ev) - 1
        after == IF event_index < Len(s.ev) /\ At(s.ev, event_index) = event
                 THEN event_index + 1 ELSE Len(s.ev) - 1
    IN  IF value = None /\ found.raised # ""
        THEN [s |-> s, raised |-> found.raised]
        ELSE IF event_index >= Len(s.ev)
        THEN [s |-> Series(uv1, s.idx, s.ev), raised |-> "IndexError"]
        ELSE [s |-> Series(uv1,
                           Slice(s.idx, 0, before) \o <<value_index>> \o Slice(s.idx, after, Len(s.idx)),
                           Slice(s.ev, 0, before) \o <<event>> \o Slice(s.ev, after, Len(s.ev))),
              raised |-> ""]

\* An add that appends the value to the vocabulary whether or not it is there.
add_always_appends(s, event, value) ==
    LET found == _lookup(s, <<event>>)
        uv1 == IF value # None THEN Append(s.uv, value) ELSE s.uv
        value_index == IF value # None THEN Len(s.uv) ELSE found.indices[1]
        event_index == searchsorted_left(s.ev, event)
        before == event_index
        after == IF At(s.ev, event_index) = event THEN event_index + 1 ELSE event_index
    IN  IF value = None /\ found.raised # ""
        THEN [s |-> s, raised |-> found.raised]
        ELSE IF event_index >= Len(s.ev)
        THEN [s |-> Series(uv1, s.idx, s.ev), raised |-> "IndexError"]
        ELSE [s |-> Series(uv1,
                           Slice(s.idx, 0, before) \o <<value_index>> \o Slice(s.idx, after, Len(s.idx)),
                           Slice(s.ev, 0, before) \o <<event>> \o Slice(s.ev, after, Len(s.ev))),
              raised |-> ""]

\* An add that always inserts, never overriding the event it coincides with.
add_always_inserts(s, event, value) ==
    LET known == value \in Range(s.uv)
        found == _lookup(s, <<event>>)
        uv1 == IF value # None /\ ~known THEN Append(s.uv, value) ELSE s.uv
        value_index == IF value # None
                       THEN (IF known THEN ListIndex(s.uv, value) ELSE Len(s.uv))
                       ELSE found.indices[1]
        event_index == searchsorted_left(s.ev, event)
    IN  IF value = None /\ found.raised # ""
        THEN [s |-> s, raised |-> found.raised]
        ELSE IF event_index >= Len(s.ev)
        THEN [s |-> Series(uv1, s.idx, s.ev), raised |-> "IndexError"]
        ELSE [s |-> Series(uv1,
                           Slice(s.idx, 0, event_index) \o <<value_index>> \o Slice(s.idx, event_index, Len(s.idx)),
                           Slice(s.ev, 0, event_index) \o <<event>> \o Slice(s.ev, event_index, Len(s.ev))),
              raised |-> ""]

\* An add whose default value is the first value of the series instead of the
\* value current at the event.
add_defaults_to_first(s, event, value) ==
    LET known == value \in Range(s.uv)
        found == _lookup(s, <<event>>)
        uv1 == IF value # None /\ ~known THEN Append(s.uv, value) ELSE s.uv
        value_index == IF value # None
                       THEN (IF known THEN ListIndex(s.uv, value) ELSE Len(s.uv))
                       ELSE s.idx[1]
        event_index == searchsorted_left(s.ev, event)
        before == event_index
        after == IF At(s.ev, event_index) = event THEN event_index + 1 ELSE event_index
    IN  IF value = None /\ found.raised # ""
        THEN [s |-> s, raised |-> found.raised]
        ELSE IF event_index >= Len(s.ev)
        THEN [s |-> Series(uv1, s.idx, s.ev), raised |-> "IndexError"]
        ELSE [s |-> Series(uv1,
                           Slice(s.idx, 0, before) \o <<value_index>> \o Slice(s.idx, after, Len(s.idx)),
                           Slice(s.ev, 0, before) \o <<event>> \o Slice(s.ev, after, Len(s.ev))),
              raised |-> ""]

\* CategoricalData.add(event, value): [s, raised]. The vocabulary grows (in
\* place) before the event position is examined, so a raise at
\* self.events[event_index] leaves the new value in unique_values.
add(s, event, value) ==
    LET known == value \in Range(s.uv)
        found == _lookup(s, <<event>>)
        uv1 == IF value # None /\ ~known THEN Append(s.uv, value) ELSE s.uv
        value_index == IF value # None
                       THEN (IF known THEN ListIndex(s.uv, value) ELSE Len(s.uv))
                       ELSE found.indices[1]
        event_index == searchsorted_left(s.ev, event)
        before == event_index
        after == IF At(s.ev, event_index) = event THEN event_index + 1 ELSE event_index
    IN  IF value = None /\ found.raised # ""
        THEN [s |-> s, raised |-> found.raised]
        ELSE IF event_index >= Len(s.ev)
        THEN [s |-> Series(uv1, s.idx, s.ev), raised |-> "IndexError"]
        ELSE [s |-> Series(uv1,
                           Slice(s.idx, 0, before) \o <<value_index>> \o Slice(s.idx, after, Len(s.idx)),
                           Slice(s.ev, 0, before) \o <<event>> \o Slice(s.ev, after, Len(s.ev))),
              raised |-> ""]

\* A remove that deletes the value and its events but leaves the remaining
\* indices as they were.
remove_without_remap(s, value) ==
    IF value \notin Range(s.uv) THEN [s |-> s, raised |-> ""]
    ELSE LET index == ListIndex(s.uv, value)
             keep == nonzero([i \in 1..Len(s.idx) |-> s.idx[i] # index])
         IN  [s |-> Series(Slice(s.uv, 0, index) \o Slice(s.uv, index + 1, Len(s.uv)),
                           Take(s.idx, keep),
                           Append(Take(s.ev, keep), Last(s.ev))),
              raised |-> ""]

\* A remove that gives the dumps of a removed segment to the segment after it:
\* each surviving segment starts where the removed segments before it started.
remove_merging_forward(s, value) ==
    IF value \notin Range(s.uv) THEN [s |-> s, raised |-> ""]
    ELSE LET index == ListIndex(s.uv, value)
             keep == nonzero([i \in 1..Len(s.idx) |-> s.idx[i] # index])
             remap == [i \in 1..Len(s.uv) |-> IF i - 1 >= index THEN i - 2 ELSE i - 1]
             kept == Take(s.idx, keep)
         IN  [s |-> Series(Slice(s.uv, 0, index) \o Slice(s.uv, index + 1, Len(s.uv)),
                           [k \in 1..Len(kept) |-> At(remap, kept[k])],
                           Append([k \in 1..Len(keep) |->
                                      IF k = 1 THEN s.ev[1] ELSE At(s.ev, keep[k - 1] + 1)],
                                  Last(s.ev))),
              raised |-> ""]

\* A remove that takes the indices of the removed value away but leaves every
\* event where it was.
remove_keeping_events(s, value) ==
    IF value \notin Range(s.uv) THEN [s |-> s, raised |-> ""]
    ELSE LET index == ListIndex(s.uv, value)
             keep == nonzero([i \in 1..Len(s.idx) |-> s.idx[i] # index])
             remap == [i \in 1..Len(s.uv) |-> IF i - 1 >= index THEN i - 2 ELSE i - 1]
             kept == Take(s.idx, keep)
         IN  [s |-> Series(Slice(s.uv, 0, index) \o Slice(s.uv, index + 1, Len(s.uv)),
                           [k \in 1..Len(kept) |-> At(remap, kept[k])],
                           s.ev),
              raised |-> ""]

\* CategoricalData.remove(value): [s, raised]. keep has one entry per index;
\* as a mask on events, which has one entry more, it selects among the first
\* len(indices) events (the NumPy of this code pads a short mask with False).
remove(s, value) ==
    IF value \notin Range(s.uv) THEN [s |-> s, raised |-> ""]
    ELSE LET index == ListIndex(s.uv, value)
             keep == nonzero([i \in 1..Len(s.idx) |-> s.idx[i] # index])
             remap == [i \in 1..Len(s.uv) |-> IF i - 1 >= index THEN i - 2 ELSE i - 1]
             kept == Take(s.idx, keep)
         IN  [s |-> Series(Slice(s.uv, 0, index) \o Slice(s.uv, index + 1, Len(s.uv)),
                           [k \in 1..Len(kept) |-> At(remap, kept[k])],
                           Append(Take(s.ev, keep), Last(s.ev))),
              raised |-> ""]

\* A remove_repeats without the leading [1]: the positions of the changes are
\* one too low and the first event is not kept for its own sake.
remove_repeats_unanchored(s) ==
    LET d == diff(s.idx)
        changes == nonzero([i \in 1..Len(d) |-> d[i] # 0])
    IN  [s |-> Series(s.uv, Take(s.idx, changes), Append(Take(s.ev, changes), Last(s.ev))),
         raised |-> ""]

\* CategoricalData.remove_repeats(): [s, raised]. With no indices, changes is
\* [0] and self.indices[changes] raises before anything is assigned.
remove_repeats(s) ==
    LET d == diff(s.idx)
        changes == nonzero(<<TRUE>> \o [i \in 1..Len(d) |-> d[i] # 0])
    IN  IF Len(s.idx) = 0 THEN [s |-> s, raised |-> "IndexError"]
        ELSE [s |-> Series(s.uv, Take(s.idx, changes), Append(Take(s.ev, changes), Last(s.ev))),
              raised |-> ""]

\* Distance from a dump to the nearest of the given events:
\* np.abs(events[np.newaxis, :] - segments[:, np.newaxis]).min(axis=1).
MinDist(evs, b) == CHOOSE m \in {Abs(evs[i] - b) : i \in 1..Len(evs)} :
                       \A i \in 1..Len(evs) : m <= Abs(evs[i] - b)

\* The segment starts with no event of evs within match_dist, in order.
Unmatched(evs, segments, match_dist) ==
    Take(segments, nonzero([k \in 1..Len(segments) |-> MinDist(evs, segments[k]) > match_dist]))

\* A loop with the try around it rather than inside it: the first IndexError
\* ends the loop.
RECURSIVE AddEach_until_error(_, _)
AddEach_until_error(s, unmatched) ==
    IF unmatched = <<>> THEN s
    ELSE IF add(s, Head(unmatched), None).raised # "" THEN s
    ELSE AddEach_until_error(add(s, Head(unmatched), None).s, Tail(unmatched))

\* The loop of add_unmatched: self.add(segm) for each unmatched start, an
\* IndexError of add being swallowed.
RECURSIVE AddEach(_, _)
AddEach(s, unmatched) ==
    IF unmatched = <<>> THEN s
    ELSE AddEach(add(s, Head(unmatched), None).s, Tail(unmatched))

\* CategoricalData.add_unmatched(segments, match_dist): [s, raised].
add_unmatched(s, segments, match_dist) ==
    [s |-> AddEach(s, Unmatched(s.ev, segments, match_dist)), raised |-> ""]

\* An argmin that takes the last of the equally close segment starts.
ArgMin_last(segments, e) ==
    CHOOSE k \in 0..(Len(segments) - 1) :
        /\ \A j \in 0..(Len(segments) - 1) : Abs(e - At(segments, k)) <= Abs(e - At(segments, j))
        /\ \A j \in (k + 1)..(Len(segments) - 1) : Abs(e - At(segments, j)) > Abs(e - At(segments, k))

\* argmin(axis=0) of the distance table: for one event, the position of the
\* closest segment start, the first one among equally close starts.
ArgMin(segments, e) ==
    CHOOSE k \in 0..(Len(segments) - 1) :
        /\ \A j \in 0..(Len(segments) - 1) : Abs(e - At(segments, k)) <= Abs(e - At(segments, j))
        /\ \A j \in 0..(k - 1) : Abs(e - At(segments, j)) > Abs(e - At(segments, k))

\* np.unique(a, return_inverse=True): the sorted distinct entries, and for each
\* entry of a its position among them.
np_unique(a) ==
    LET subset == SortedSeq(Range(a))
    IN  [subset |-> subset, inverse |-> [i \in 1..Len(a) |-> ListIndex(subset, a[i])]]

\* An align that leaves the vocabulary and the index numbers as they were.
align_unpruned(s, segments) ==
    LET evs == [i \in 1..Len(s.ev) |-> At(segments, ArgMin(segments, s.ev[i]))]
        dv == diff(evs)
        final == nonzero([i \in 1..Len(dv) |-> dv[i] > 0])
    IN  [s |-> Series(s.uv, Take(s.idx, final), Append(Take(evs, final), Last(evs))),
         raised |-> ""]

\* An align that moves the events but discards none of them.
align_keeps_all(s, segments) ==
    LET evs == [i \in 1..Len(s.ev) |-> At(segments, ArgMin(segments, s.ev[i]))]
        final == [i \in 1..(Len(s.ev) - 1) |-> i - 1]
        u == np_unique(Take(s.idx, final))
    IN  [s |-> Series([k \in 1..Len(u.subset) |-> At(s.uv, u.subset[k])],
                      u.inverse,
                      Append(Take(evs, final), Last(evs))),
         raised |-> ""]

\* An align that keeps the first, not the final, event of each segment start.
align_keeps_first(s, segments) ==
    LET evs == [i \in 1..Len(s.ev) |-> At(segments, ArgMin(segments, s.ev[i]))]
        final == nonzero([i \in 1..(Len(evs) - 1) |->
                             /\ evs[i] < Last(evs)
                             /\ (i = 1 \/ evs[i] > evs[i - 1])])
        u == np_unique(Take(s.idx, final))
    IN  [s |-> Series([k \in 1..Len(u.subset) |-> At(s.uv, u.subset[k])],
                      u.inverse,
                      Append(Take(evs, final), Last(evs))),
         raised |-> ""]

\* CategoricalData.align(segments): [s, raised].
align(s, segments) ==
    LET segments_with_event == [i \in 1..Len(s.ev) |-> ArgMin(segments, s.ev[i])]
        evs == Take(segments, segments_with_event)
        dv == diff(evs)
        final == nonzero([i \in 1..Len(dv) |-> dv[i] > 0])
        u == np_unique(Take(s.idx, final))
    IN  [s |-> Series([k \in 1..Len(u.subset) |-> At(s.uv, u.subset[k])],
                      u.inverse,
                      Append(Take(evs, final), Last(evs))),
         raised |-> ""]

\* ------------------------------------------------------------------ partition
\* An initial index that is always the first index of the parent.
InitialIndex_first(s, start) == At(s.idx, 0)

\* The index in force at the start of a window:
\* self.indices[(events.searchsorted(start, side='right') - 1).clip(0, len(events) - 1)],
\* events being self.events[:-1]. With no events the clip gives -1, the last
\* index.
InitialIndex(s, start) ==
    LET evs == Slice(s.ev, 0, Len(s.ev) - 1)
        found == searchsorted_right(evs, start) - 1
        clipped == Min2(IF found < 0 THEN 0 ELSE found, Len(evs) - 1)
    IN  IF clipped < 0 THEN Last(s.idx) ELSE At(s.idx, clipped)

\* The body of partition's loop for one window [start, end): the events of
\* the parent inside the window, moved to start at 0, preceded by the index in
\* force at start unless an event sits on start, and closed by the length of
\* the window. The container shares the parent's unique_values.
PartitionChild(s, start, end) ==
    LET evs == Slice(s.ev, 0, Len(s.ev) - 1)
        segment_events == nonzero([i \in 1..Len(evs) |-> evs[i] >= start /\ evs[i] < end])
        child_indices == Take(s.idx, segment_events)
        child_events == [k \in 1..Len(segment_events) |-> At(evs, segment_events[k]) - start]
    IN  IF Len(child_events) = 0 \/ child_events[1] # 0
        THEN Series(s.uv, <<InitialIndex(s, start)>> \o child_indices,
                    <<0>> \o child_events \o <<end - start>>)
        ELSE Series(s.uv, child_indices, Append(child_events, end - start))

\* CategoricalData.partition(segments): [split_data, raised], one container per
\* pair of consecutive segment boundaries. The initial indices are looked up
\* before the loop; with a boundary pair and no index to look up the lookup
\* raises IndexError.
partition(s, segments) ==
    IF Len(segments) >= 2 /\ Len(s.idx) = 0
    THEN [split_data |-> <<>>, raised |-> "IndexError"]
    ELSE [split_data |-> [k \in 1..(Len(segments) - 1) |->
                             PartitionChild(s, segments[k], segments[k + 1])],
          raised |-> ""]

\* ---------------------------------------------------- concatenate_categorical
\* np.cumsum(a): the running sums.
RECURSIVE cumsum(_)
cumsum(a) ==
    IF a = <<>> THEN <<>>
    ELSE LET rest == cumsum(SubSeq(a, 1, Len(a) - 1))
         IN  Append(rest, (IF rest = <<>> THEN 0 ELSE Last(rest)) + a[Len(a)])

\* sum(lists, []) and np.concatenate(lists): the lists joined end to end.
RECURSIVE Flatten(_)
Flatten(lists) == IF lists = <<>> THEN <<>> ELSE Head(lists) \o Flatten(Tail(lists))

\* A join that leaves the events of every part where they were, without the
\* offset of the parts before it.
Joined_unshifted(split) ==
    LET split_values == [n \in 1..Len(split) |-> split[n].uv]
        inverse_splits == cumsum(<<0>> \o [n \in 1..Len(split) |-> Len(split_values[n])])
        u == unique_in_order(Flatten(split_values))
    IN  Series(u.unique_elements,
               Flatten([n \in 1..Len(split) |->
                           Take(Slice(u.inverse, inverse_splits[n], inverse_splits[n + 1]),
                                split[n].idx)]),
               Flatten([n \in 1..Len(split) |-> SubSeq(split[n].ev, 1, Len(split[n].ev) - 1)])
                   \o <<Last(cumsum([n \in 1..Len(split) |-> Last(split[n].ev)]))>>)

\* A join that keeps each part's own index numbers.
Joined_unrenumbered(split) ==
    LET segments == cumsum(<<0>> \o [n \in 1..Len(split) |-> Last(split[n].ev)])
    IN  Series(OrderedKeys(Flatten([n \in 1..Len(split) |-> split[n].uv]), <<>>),
               Flatten([n \in 1..Len(split) |-> split[n].idx]),
               Flatten([n \in 1..Len(split) |->
                           [i \in 1..(Len(split[n].ev) - 1) |-> split[n].ev[i] + segments[n]]])
                   \o <<Last(segments)>>)

\* The joined container before any repeat removal: one vocabulary in order of
\* first appearance, each part's indices renumbered into it, each part's
\* events (without its sentinel) offset by the total length of the parts
\* before it, and the total length as the new sentinel.
Joined(split) ==
    LET segments == cumsum(<<0>> \o [n \in 1..Len(split) |-> Last(split[n].ev)])
        split_values == [n \in 1..Len(split) |-> split[n].uv]
        inverse_splits == cumsum(<<0>> \o [n \in 1..Len(split) |-> Len(split_values[n])])
        u == unique_in_order(Flatten(split_values))
    IN  Series(u.unique_elements,
               Flatten([n \in 1..Len(split) |->
                           Take(Slice(u.inverse, inverse_splits[n], inverse_splits[n + 1]),
                                split[n].idx)]),
               Flatten([n \in 1..Len(split) |->
                           [i \in 1..(Len(split[n].ev) - 1) |-> split[n].ev[i] + segments[n]]])
                   \o <<Last(segments)>>)

\* A concatenation without the shortcut for a single part: the part is joined
\* and stripped of repeats like any other list.
concatenate_without_shortcut(split, allow_repeats) ==
    IF Len(split) = 0
    THEN [s |-> Series(<<>>, <<>>, <<>>), alias |-> 0, raised |-> "ValueError"]
    ELSE IF allow_repeats \/ Len(Joined(split).idx) = 0
    THEN [s |-> Joined(split), alias |-> 0, raised |-> ""]
    ELSE [s |-> remove_repeats(Joined(split)).s, alias |-> 0, raised |-> ""]

\* A concatenation that never removes repeats.
concatenate_keeping_repeats(split, allow_repeats) ==
    IF Len(split) = 1
    THEN [s |-> split[1], alias |-> 1, raised |-> ""]
    ELSE IF Len(split) = 0
    THEN [s |-> Series(<<>>, <<>>, <<>>), alias |-> 0, raised |-> "ValueError"]
    ELSE [s |-> Joined(split), alias |-> 0, raised |-> ""]

\* concatenate_categorical(split_data, allow_repeats=...): [s, alias, raised].
\* A single part is returned as it is (alias 1: the object split_data[0]);
\* otherwise the result is a new object (alias 0). With no parts
\* np.concatenate raises ValueError; an IndexError of remove_repeats is not
\* caught.
concatenate_categorical(split, allow_repeats) ==
    IF Len(split) = 1
    THEN [s |-> split[1], alias |-> 1, raised |-> ""]
    ELSE IF Len(split) = 0
    THEN [s |-> Series(<<>>, <<>>, <<>>), alias |-> 0, raised |-> "ValueError"]
    ELSE IF allow_repeats
    THEN [s |-> Joined(split), alias |-> 0, raised |-> ""]
    ELSE IF remove_repeats(Joined(split)).raised # ""
    THEN [s |-> Series(<<>>, <<>>, <<>>), alias |-> 0,
          raised |-> remove_repeats(Joined(split)).raised]
    ELSE [s |-> remove_repeats(Joined(split)).s, alias |-> 0, raised |-> ""]

\* ------------------------------------------------------ sensor_to_categorical
\* Time is counted in half dumps: a dump lasts DumpPeriod, dump k of the grid
\* runs from DumpPeriod * k to DumpPeriod * (k + 1) with its midtime between.
DumpPeriod == 2
DumpMidtimes(N) == [k \in 1..N |-> DumpPeriod * k - DumpPeriod \div 2]

\* The arguments of a call are a record a: timestamps, values (sensor_values),
\* N (the number of dump midtimes), initial_value (or None), transform and
\* greedy_values (each [given, ...], given = FALSE standing for None) and
\* allow_repeats. Each stage of the function takes the pair [values, events]
\* of the stage before it and gives the next pair.
Stage(values, evs) == [values |-> values, events |-> evs]

\* The dump in which each sensor event occurred, and the number of dumps as
\* the final event:
\* np.r_[dump_midtimes.searchsorted(sensor_timestamps - 0.5 * dump_period), len(dump_midtimes)].
EventDumps(timestamps, N) ==
    [i \in 1..Len(timestamps) |->
        searchsorted_left(DumpMidtimes(N), timestamps[i] - DumpPeriod \div 2)] \o <<N>>

\* A cull that keeps the first, not the last, of the events of one dump.
Culled_first(values, dumps, N) ==
    Stage(Take(values, nonzero([i \in 1..Len(values) |->
                                   dumps[i] < N /\ (i = 1 \/ dumps[i] > dumps[i - 1])])),
          Append(Take(dumps, nonzero([i \in 1..Len(values) |->
                                         dumps[i] < N /\ (i = 1 \/ dumps[i] > dumps[i - 1])])),
                 N))

\* The events that start a segment of at least one dump: the last event of
\* each dump, and none of the events past the last dump.
Culled(values, dumps, N) ==
    LET d == diff(dumps)
        non_empty == nonzero([i \in 1..Len(d) |-> d[i] > 0])
    IN  Stage(Take(values, non_empty), Append(Take(dumps, non_empty), N))

\* A first-dump rule that inserts the initial value whether or not an event
\* sits on dump 0.
FirstDumpForced_always(c, initial_value) ==
    IF initial_value # None
    THEN Stage(<<initial_value>> \o c.values, <<0>> \o c.events)
    ELSE Stage(c.values, [c.events EXCEPT ![1] = 0])

\* The first-dump rule: the initial value is inserted at dump 0 unless the
\* first event is on dump 0 already, and then events[0] = 0 whatever events[0]
\* is (with no event left it is the final event).
FirstDumpForced(c, initial_value) ==
    IF c.events[1] # 0 /\ initial_value # None
    THEN Stage(<<initial_value>> \o c.values, <<0>> \o c.events)
    ELSE Stage(c.values, [c.events EXCEPT ![1] = 0])

\* transform applied to every value, the inserted initial value included.
Transformed(f, transform) ==
    IF transform.given
    THEN Stage([i \in 1..Len(f.values) |-> transform.f[f.values[i]]], f.events)
    ELSE f

\* A repeat removal that compares each event with the first event.
RepeatsDiscarded_against_first(t, allow_repeats, N) ==
    IF allow_repeats THEN t
    ELSE Stage(Take(t.values, nonzero([n \in 1..Len(t.values) |->
                                          n = 1 \/ t.values[n] # t.values[1]])),
               Append(Take(t.events, nonzero([n \in 1..Len(t.values) |->
                                                 n = 1 \/ t.values[n] # t.values[1]])),
                      N))

\* Unless allow_repeats, the events that change the value; the final event is
\* put back as len(dump_midtimes).
RepeatsDiscarded(t, allow_repeats, N) ==
    LET changes == nonzero([n \in 1..Len(t.values) |-> n = 1 \/ t.values[n] # t.values[n - 1]])
    IN  IF allow_repeats THEN t
        ELSE Stage(Take(t.values, changes), Append(Take(t.events, changes), N))

\* A greedy shift in the other direction: the event that changes a value that
\* is not greedy into a greedy value moves one dump later.
GreedyShifted_to_greedy(r, greedy_values) ==
    IF ~greedy_values.given THEN r
    ELSE Stage(r.values,
               [n \in 1..Len(r.events) |->
                   IF /\ n \in 2..Len(r.values)
                      /\ r.values[n - 1] \notin greedy_values.values
                      /\ r.values[n] \in greedy_values.values
                   THEN r.events[n] + 1
                   ELSE r.events[n]])

\* events[greedy_to_nongreedy] += 1: an event that changes a greedy value into
\* a value that is not greedy moves one dump later.
GreedyShifted(r, greedy_values) ==
    IF ~greedy_values.given THEN r
    ELSE Stage(r.values,
               [n \in 1..Len(r.events) |->
                   IF /\ n \in 2..Len(r.values)
                      /\ r.values[n - 1] \in greedy_values.values
                      /\ r.values[n] \notin greedy_values.values
                   THEN r.events[n] + 1
                   ELSE r.events[n]])

\* The stages of sensor_to_categorical up to the one named.
CulledEvents(a) == Culled(a.values, EventDumps(a.timestamps, a.N), a.N)
FirstDumpEvents(a) == FirstDumpForced(CulledEvents(a), a.initial_value)
TransformedEvents(a) == Transformed(FirstDumpEvents(a), a.transform)
ChangeEvents(a) == RepeatsDiscarded(TransformedEvents(a), a.allow_repeats, a.N)
GreedyEvents(a) == GreedyShifted(ChangeEvents(a), a.greedy_values)

\* The container built from a stage: CategoricalData(sensor_values, events).
Built(g) == CategoricalData(g.values, g.events)

\* sensor_to_categorical(...): the container built from the last stage.
sensor_to_categorical(a) == Built(GreedyEvents(a))

\* ------------------------------------------------------------------- inputs
\* Non-decreasing sequences of n dumps (the events a caller passes).
NonDecreasing(n) == {e \in [1..n -> Dumps] : \A i \in 1..(n - 1) : e[i] <= e[i + 1]}
\* Strictly increasing sequences of segment starts, at least one start.
SegmentStarts == {SortedSeq(S) : S \in (SUBSET Dumps) \ {{}}}
\* Sequences of at most n sensor values.
ValueSeqs(n) == UNION {[1..k -> Values] : k \in 0..n}
\* Constructor arguments of the documented shape: N values, N + 1 events.
ValidArgs == {a \in [values : ValueSeqs(MaxSeg), events : UNION {NonDecreasing(k) : k \in 1..(MaxSeg + 1)}] :
                  Len(a.events) = Len(a.values) + 1}
\* Constructor arguments of any two lengths.
AnyArgs == [values : ValueSeqs(MaxSeg), events : UNION {NonDecreasing(k) : k \in 0..(MaxSeg + 1)}]
\* Dumps asked of __getitem__: the grid, one dump before it and one past it.
QueryDumps == (0 - 1)..(MaxDump + 1)
Keys == {[kind |-> "int", dumps |-> <<d>>, start |-> 0, stop |-> 0] : d \in QueryDumps}
        \cup {[kind |-> "seq", dumps |-> ds, start |-> 0, stop |-> 0] :
                  ds \in UNION {[1..k -> QueryDumps] : k \in 2..MaxKey}}
        \cup {[kind |-> "slice", dumps |-> <<>>, start |-> a, stop |-> b] :
                  a \in 0..(MaxDump + 1), b \in 0..(MaxDump + 1)}
MatchDists == {0, 1}
\* Series for concatenate_categorical: built by the constructor, starting at
\* dump 0 and covering at least one dump.
Parts == {CategoricalData(a.values, a.events) :
              a \in {v \in ValidArgs : v.events[1] = 0 /\ Last(v.events) >= 1}}
\* The total length of a list of series, segments[-1] of
\* concatenate_categorical.
TotalLength(split) == Last(cumsum(<<0>> \o [n \in 1..Len(split) |-> Last(split[n].ev)]))
\* Time-ordered timestamps of k sensor events around a grid of N dumps, from
\* before the first dump to after the last.
Timestamps(k, N) == {ts \in [1..k -> 0..(DumpPeriod * N + 1)] : \A i \in 1..(k - 1) : ts[i] <= ts[i + 1]}
\* transform: None or a function on the values.
Transforms == {[given |-> FALSE, f |-> [v \in Values |-> v]]}
                  \cup {[given |-> TRUE, f |-> g] : g \in [Values -> Values]}
\* greedy_values: None or a set of values.
GreedyValues == {[given |-> FALSE, values |-> {}]}
                    \cup {[given |-> TRUE, values |-> S] : S \in SUBSET Values}
\* Lists of at most k series whose concatenation fits the dumps in use.
RECURSIVE PartLists(_)
PartLists(k) ==
    IF k = 1 THEN {<<p>> : p \in Parts}
    ELSE PartLists(k - 1)
             \cup UNION {{Append(split, p) :
                             p \in {q \in Parts : TotalLength(split) + Last(q.ev) <= MaxDump}} :
                         split \in {s \in PartLists(k - 1) : Len(s) = k - 1}}
ConcatInputs == PartLists(MaxParts)

\* -------------------------------------------------------------------- state
VARIABLES unique_values, indices, events, pre, op, query, split_data, aliases, data
vars == <<unique_values, indices, events, pre, op, query, split_data, aliases, data>>

\* The container as one record.
Cur == Series(unique_values, indices, events)

\* op: the constructor or mutator call that produced the container, with its
\* arguments and whether it raised, until the call has returned ("idle");
\* pre: the container before that call; query: the __getitem__ in progress.
OpRec(name, event, value, seq, vals, dist, raised) ==
    [name |-> name, event |-> event, value |-> value, seq |-> seq, vals |-> vals,
     dist |-> dist, raised |-> raised]
IdleOp == OpRec("idle", 0, None, <<>>, <<>>, 0, "")
NoQuery == [asked |-> FALSE, key |-> [kind |-> "int", dumps |-> <<>>, start |-> 0, stop |-> 0],
            raised |-> "", scalar |-> FALSE, vals |-> <<>>]
NoSeries == Series(<<>>, <<>>, <<>>)
\* split_data: a list of containers (the result of partition, the argument of
\* concatenate_categorical); aliases: the positions in split_data of the
\* containers whose unique_values is the very list object of the container
\* Cur; data: what a function returned, [s, alias, raised], alias being the
\* position in split_data of the object returned or 0 for a new object.
NoData == [s |-> NoSeries, alias |-> 0, raised |-> ""]

\* No call is in progress: the next call may start.
Idle == op.name \in {"idle", "construct"} /\ ~query.asked

Becomes(s) ==
    /\ unique_values' = s.uv
    /\ indices' = s.idx
    /\ events' = s.ev

Constructed(a) ==
    /\ unique_values = CategoricalData(a.values, a.events).uv
    /\ indices = CategoricalData(a.values, a.events).idx
    /\ events = CategoricalData(a.values, a.events).ev
    /\ pre = NoSeries
    /\ op = OpRec("construct", 0, None, a.events, a.values, 0, "")
    /\ query = NoQuery
    /\ split_data = <<>>
    /\ aliases = {}
    /\ data = NoData

\* A container built from arguments of the documented shape.
Init == \E a \in ValidArgs : Constructed(a)

\* A container built from arguments of any two lengths.
InitAny == \E a \in AnyArgs : Constructed(a)

GetItem(key) ==
    /\ Idle
    /\ query' = [asked |-> TRUE, key |-> key] @@ getitem(Cur, key)
    /\ UNCHANGED <<unique_values, indices, events, pre, op, split_data, aliases, data>>

\* __getitem__ has returned (or raised) to its caller.
GetItemReturn ==
    /\ query.asked
    /\ query' = NoQuery
    /\ UNCHANGED <<unique_values, indices, events, pre, op, split_data, aliases, data>>

\* A mutator call: the container becomes the call's result and the call is
\* recorded. Series are followed up to MaxSeg segments.
Mutate(name, event, value, seq, dist, result) ==
    /\ Idle
    /\ Len(result.s.idx) <= MaxSeg
    /\ Becomes(result.s)
    /\ pre' = Cur
    /\ op' = OpRec(name, event, value, seq, <<>>, dist, result.raised)
    /\ query' = NoQuery
    /\ UNCHANGED <<split_data, aliases, data>>

Add(event, value) == Mutate("add", event, value, <<>>, 0, add(Cur, event, value))

Remove(value) == Mutate("remove", 0, value, <<>>, 0, remove(Cur, value))

RemoveRepeats == Mutate("remove_repeats", 0, None, <<>>, 0, remove_repeats(Cur))

AddUnmatched(segments, match_dist) ==
    Mutate("add_unmatched", 0, None, segments, match_dist, add_unmatched(Cur, segments, match_dist))

Align(segments) == Mutate("align", 0, None, segments, 0, align(Cur, segments))

\* The mutator has returned (or raised) to its caller.
Return ==
    /\ op.name \notin {"idle", "construct"}
    /\ op' = IdleOp
    /\ pre' = NoSeries
    /\ UNCHANGED <<unique_values, indices, events, query, split_data, aliases, data>>

Next ==
    \/ \E e \in Dumps, v \in Values \cup {None} : Add(e, v)
    \/ \E v \in Values : Remove(v)
    \/ RemoveRepeats
    \/ \E b \in SegmentStarts, m \in MatchDists : AddUnmatched(b, m)
    \/ \E b \in SegmentStarts : Align(b)
    \/ Return

Spec == Init /\ [][Next]_vars

\* A container of the documented shape whose first event is dump 0.
InitCovering == \E a \in {v \in ValidArgs : v.events[1] = 0} : Constructed(a)

\* The mutators applied to a series that starts at dump 0.
SpecCovering == InitCovering /\ [][Next]_vars

\* The constructor and lookups alone, the constructor with arguments of any
\* two lengths.
NextQuery ==
    \/ \E key \in Keys : GetItem(key)
    \/ GetItemReturn

SpecQuery == InitAny /\ [][NextQuery]_vars

\* -------------------------------------------------------------- comparisons
\* The scalars a series is compared with: the values in use and one value that
\* is in no vocabulary.
Scalars == Values \cup {ValueNames[NumValues + 1]}
\* What np.empty may hold: any bool at every dump.
Uninitialised == [1..MaxDump -> BOOLEAN]
\* query of a comparison: the operator, the scalar, and the array returned.
CompareRec(name, other, result) ==
    [asked |-> TRUE, key |-> [kind |-> name, dumps |-> <<>>, start |-> 0, stop |-> 0],
     other |-> other, raised |-> result.raised, scalar |-> FALSE, vals |-> result.vals]

\* series == other.
Eq(other) ==
    /\ Idle
    /\ \E fill \in Uninitialised : query' = CompareRec("eq", other, eq(Cur, other, fill))
    /\ UNCHANGED <<unique_values, indices, events, pre, op, split_data, aliases, data>>

\* series != other.
Ne(other) ==
    /\ Idle
    /\ \E fill \in Uninitialised : query' = CompareRec("ne", other, ne(Cur, other, fill))
    /\ UNCHANGED <<unique_values, indices, events, pre, op, split_data, aliases, data>>

NextCompare ==
    \/ \E other \in Scalars : Eq(other)
    \/ \E other \in Scalars : Ne(other)

\* A constructed series and one comparison of it with a scalar.
SpecCompare == Init /\ [][NextCompare]_vars

\* ------------------------------------------------- partition and its results
\* op of a call on one of the containers of split_data: which container, the
\* arguments, and split_data as it was before the call.
ChildOp(name, child, event, value, raised, before) ==
    [name |-> name, child |-> child, event |-> event, value |-> value,
     raised |-> raised, before |-> before]
\* op of concatenate_categorical: its keyword and, where split_data came from
\* partition, the boundaries given to partition.
ConcatOp(allow_repeats, segments) ==
    [name |-> "concatenate_categorical", allow_repeats |-> allow_repeats, seq |-> segments]

\* self.partition(segments): the containers returned all hold the list object
\* self.unique_values.
Partition(segments) ==
    /\ Idle
    /\ split_data' = partition(Cur, segments).split_data
    /\ aliases' = 1..Len(partition(Cur, segments).split_data)
    /\ pre' = Cur
    /\ op' = OpRec("partition", 0, None, segments, <<>>, 0, partition(Cur, segments).raised)
    /\ UNCHANGED <<unique_values, indices, events, query, data>>

\* A mutator call on container child of split_data. add and remove change
\* unique_values in place (+= and del), so when the list object is shared the
\* new contents are seen by the container Cur and by every other container
\* holding the object; indices and events are attributes of the one container.
ChildMutate(name, child, event, value, result) ==
    /\ op.name = "partition"
    /\ child \in 1..Len(split_data)
    /\ split_data' = [j \in 1..Len(split_data) |->
                         IF j = child THEN result.s
                         ELSE IF child \in aliases /\ j \in aliases
                         THEN [split_data[j] EXCEPT !.uv = result.s.uv]
                         ELSE split_data[j]]
    /\ unique_values' = IF child \in aliases THEN result.s.uv ELSE unique_values
    /\ pre' = Cur
    /\ op' = ChildOp(name, child, event, value, result.raised, split_data)
    /\ UNCHANGED <<indices, events, query, aliases, data>>

ChildAdd(child, event, value) ==
    ChildMutate("child.add", child, event, value, add(split_data[child], event, value))

ChildRemove(child, value) ==
    ChildMutate("child.remove", child, 0, value, remove(split_data[child], value))

\* concatenate_categorical(split_data, allow_repeats=allow_repeats).
Concatenate(allow_repeats) ==
    /\ op.name \in {"idle", "partition"}
    /\ data' = concatenate_categorical(split_data, allow_repeats)
    /\ op' = ConcatOp(allow_repeats, op.seq)
    /\ UNCHANGED <<unique_values, indices, events, pre, query, split_data, aliases>>

NextPartition ==
    \/ \E b \in SegmentStarts : Partition(b)
    \/ \E k \in 1..MaxDump, e \in Dumps, v \in Values \cup {None} : ChildAdd(k, e, v)
    \/ \E k \in 1..MaxDump, v \in Values : ChildRemove(k, v)
    \/ \E r \in BOOLEAN : Concatenate(r)

\* A container, a partition of it, and then either one mutator call on one of
\* the parts or the concatenation of the parts.
SpecPartition == Init /\ [][NextPartition]_vars

\* -------------------------------------------------- concatenation on its own
\* A list of series, each built on its own, about to be concatenated.
InitConcat ==
    /\ \E split \in ConcatInputs : split_data = split
    /\ aliases = {}
    /\ data = NoData
    /\ unique_values = <<>>
    /\ indices = <<>>
    /\ events = <<>>
    /\ pre = NoSeries
    /\ op = IdleOp
    /\ query = NoQuery

NextConcat == \E r \in BOOLEAN : Concatenate(r)

SpecConcat == InitConcat /\ [][NextConcat]_vars

\* ------------------------------------- concatenation of a series in any state
\* The series a container is concatenated with: two dumps long, one value per
\* dump at most, built by the constructor.
Others == {CategoricalData(vals, [i \in 1..(Len(vals) + 1) |-> IF i = Len(vals) + 1 THEN 2 ELSE i - 1]) :
               vals \in UNION {[1..k -> Values] : k \in 1..2}}

\* concatenate_categorical([self, other]) or ([other, self]), the container
\* being in whatever state the calls before have left it.
ConcatenateWith(other, first, allow_repeats) ==
    /\ Idle
    /\ split_data' = IF first THEN <<Cur, other>> ELSE <<other, Cur>>
    /\ data' = concatenate_categorical(IF first THEN <<Cur, other>> ELSE <<other, Cur>>,
                                       allow_repeats)
    /\ op' = ConcatOp(allow_repeats, <<>>)
    /\ UNCHANGED <<unique_values, indices, events, pre, query, aliases>>

\* A mutator has returned; nothing follows a concatenation.
MutatorReturn == op.name # "concatenate_categorical" /\ Return

NextVocabulary ==
    \/ \E e \in Dumps, v \in Values \cup {None} : Add(e, v)
    \/ \E v \in Values : Remove(v)
    \/ RemoveRepeats
    \/ \E b \in SegmentStarts, m \in MatchDists : AddUnmatched(b, m)
    \/ \E b \in SegmentStarts : Align(b)
    \/ MutatorReturn
    \/ \E other \in Others, first \in BOOLEAN, r \in BOOLEAN : ConcatenateWith(other, first, r)

\* A constructed series, any sequence of mutator calls, and then its
\* concatenation with another series.
SpecVocabulary == Init /\ [][NextVocabulary]_vars

\* ----------------------------------------------------------- the discretizer
\* op of sensor_to_categorical: its arguments, before and after the call.
SensorOp(name, a) == [name |-> name, args |-> a]

\* A sensor stream and a grid of dumps, about to be discretized.
InitSensor ==
    /\ \E N \in 1..MaxGrid, k \in 0..MaxSamples :
           \E ts \in Timestamps(k, N), vals \in [1..k -> Values], iv \in Values \cup {None},
              tr \in Transforms, ar \in BOOLEAN, gv \in GreedyValues :
               op = SensorOp("sensor", [timestamps |-> ts, values |-> vals, N |-> N,
                                        initial_value |-> iv, transform |-> tr,
                                        allow_repeats |-> ar, greedy_values |-> gv])
    /\ data = NoData
    /\ split_data = <<>>
    /\ aliases = {}
    /\ unique_values = <<>>
    /\ indices = <<>>
    /\ events = <<>>
    /\ pre = NoSeries
    /\ query = NoQuery

SensorToCategorical ==
    /\ op.name = "sensor"
    /\ data' = [s |-> sensor_to_categorical(op.args), alias |-> 0, raised |-> ""]
    /\ op' = SensorOp("sensor_to_categorical", op.args)
    /\ UNCHANGED <<unique_values, indices, events, pre, query, split_data, aliases>>

NextSensor == SensorToCategorical

SpecSensor == InitSensor /\ [][NextSensor]_vars

\* =================================================================== claims
\* ------------------------------------------------------- notions of the spec
NonDecreasingSeq(e) == \A i \in 1..(Len(e) - 1) : e[i] <= e[i + 1]
StrictlyIncreasing(e) == \A i \in 1..(Len(e) - 1) : e[i] < e[i + 1]
\* The invariants of the data model: one more event than indices, every index
\* a vocabulary index, events non-decreasing.
WellFormed(s) ==
    /\ Len(s.ev) = Len(s.idx) + 1
    /\ \A i \in 1..Len(s.idx) : s.idx[i] \in 0..(Len(s.uv) - 1)
    /\ NonDecreasingSeq(s.ev)
\* d lies in the valid dump range [events[0], events[-1]).
InRange(evs, d) == Len(evs) >= 1 /\ evs[1] <= d /\ d < Last(evs)
\* The greatest 0-based i with evs[i] <= d < evs[i+1].
Holder(evs, d) ==
    CHOOSE i \in 0..(Len(evs) - 2) :
        /\ At(evs, i) <= d /\ d < At(evs, i + 1)
        /\ \A j \in (i + 1)..(Len(evs) - 2) : ~(At(evs, j) <= d /\ d < At(evs, j + 1))
IntKey(d) == [kind |-> "int", dumps |-> <<d>>, start |-> 0, stop |-> 0]
\* The constructor call was given N values and N + 1 events.
ValidConstruct == op.name = "construct" /\ Len(op.seq) = Len(op.vals) + 1

\* C1: zeroth-order hold. For a series constructed from N values and N + 1
\* non-decreasing events, looking up dumps that all lie in
\* [events[0], events[-1]) returns, for each dump d, values[i] for the greatest
\* i with events[i] <= d < events[i+1]; the scenario ['a','b','c'] on
\* [0,2,5,7] gives 'a','a','b','c' at dumps 0, 1, 2, 6.
C1_Example ==
    LET s == CategoricalData(<<"a", "b", "c">>, <<0, 2, 5, 7>>)
    IN  /\ getitem(s, IntKey(0)).vals = <<"a">>
        /\ getitem(s, IntKey(1)).vals = <<"a">>
        /\ getitem(s, IntKey(2)).vals = <<"b">>
        /\ getitem(s, IntKey(6)).vals = <<"c">>
C1_ZerothOrderHold ==
    /\ C1_Example
    /\ (/\ ValidConstruct
        /\ query.asked
        /\ query.key.kind \in {"int", "seq"}
        /\ \A k \in 1..Len(query.key.dumps) : InRange(op.seq, query.key.dumps[k]))
       => /\ query.raised = ""
          /\ query.scalar = (query.key.kind = "int")
          /\ Len(query.vals) = Len(query.key.dumps)
          /\ \A k \in 1..Len(query.key.dumps) :
                 query.vals[k] = At(op.vals, Holder(op.seq, query.key.dumps[k]))
\* A dump strictly inside the second of two segments of different values was
\* looked up and gave the second value.
C1_Witness ==
    /\ ValidConstruct
    /\ Len(op.vals) >= 2
    /\ op.vals[1] # op.vals[2]
    /\ query.asked /\ query.key.kind = "int" /\ query.raised = ""
    /\ query.key.dumps[1] > op.seq[2]
    /\ query.key.dumps[1] < op.seq[3]
    /\ query.vals = <<op.vals[2]>>

\* C2: out-of-range lookup. On a series with len(indices) == len(events) - 1,
\* a query (an int, a sequence of ints, a slice) naming any dump d with
\* d < events[0] or d >= events[-1] raises the out-of-range IndexError and
\* returns nothing, also when its other dumps are in range; the series is as
\* constructed.
C2_OutOfRange ==
    (/\ query.asked
     /\ Len(events) = Len(indices) + 1
     /\ \E k \in 1..Len(KeyDumps(Cur, query.key)) :
            ~InRange(events, KeyDumps(Cur, query.key)[k]))
    => /\ query.raised = "IndexError"
       /\ query.vals = <<>>
       /\ Cur = CategoricalData(op.vals, op.seq)
\* A two-dump query with the first dump in range and the second one past the
\* end raised.
C2_Witness ==
    /\ query.asked /\ query.key.kind = "seq"
    /\ Len(events) = Len(indices) + 1
    /\ InRange(events, query.key.dumps[1])
    /\ query.key.dumps[2] >= Last(events)
    /\ query.raised = "IndexError"

\* C3 as stated: constructing with len(events) != len(values) + 1 fails with a
\* ShapeError, and no constructed series has events and indices lengths that
\* disagree.
C3_Original ==
    op.name = "construct" =>
        /\ (Len(op.seq) # Len(op.vals) + 1 => op.raised = "ShapeError")
        /\ (op.raised = "" => Len(events) = Len(indices) + 1)
\* C3 as amended: the constructor checks no lengths. For any values and events
\* it succeeds, with one index per value (each denoting that value) and the
\* events stored as given, so that len(events) == len(indices) + 1 holds of the
\* result exactly when the arguments satisfied len(events) == len(values) + 1.
C3_NoLengthCheck ==
    op.name = "construct" =>
        /\ op.raised = ""
        /\ Len(indices) = Len(op.vals)
        /\ \A i \in 1..Len(indices) : At(unique_values, indices[i]) = op.vals[i]
        /\ events = op.seq
        /\ (Len(events) = Len(indices) + 1) <=> (Len(op.seq) = Len(op.vals) + 1)
\* A series was constructed from two values and fewer than three events.
C3_Witness ==
    /\ op.name = "construct" /\ op.raised = ""
    /\ Len(op.vals) = 2
    /\ Len(op.seq) < 3
    /\ Len(indices) = 2 /\ Len(events) < 3

\* ---------------------------------------------------------------- mutators
\* The boundary that follows dump e in evs (the sentinel at the latest).
NextBoundary(evs, e) == CHOOSE x \in Range(evs) : x > e /\ \A y \in Range(evs) : y > e => x <= y
\* The number of entries of evs equal to x.
Count(evs, x) == Cardinality({i \in 1..Len(evs) : evs[i] = x})
\* evs with x inserted at its sorted position.
Inserted(evs, x) ==
    LET k == Cardinality({i \in 1..Len(evs) : evs[i] < x})
    IN  Slice(evs, 0, k) \o <<x>> \o Slice(evs, k, Len(evs))
\* The value of the segment of s that starts at boundary b (b is an event of
\* s other than the sentinel, and no other segment starts there).
ValueFrom(s, b) == At(s.uv, At(s.idx, CHOOSE i \in 0..(Len(s.idx) - 1) : At(s.ev, i) = b))

\* C4: add with an explicit value. For a series with strictly increasing
\* events, 0 <= e < events[-1] and a value v that is not None: add succeeds;
\* if e was a boundary the events are unchanged and the segment starting at e
\* has value v, otherwise the events are the old ones with e inserted at its
\* sorted position (one segment more); getValue(d) == v for every dump from
\* e up to the next boundary and getValue(d) is unchanged for every other dump
\* that was in range.
C4_AddValue ==
    (/\ op.name = "add"
     /\ op.value # None
     /\ WellFormed(pre)
     /\ StrictlyIncreasing(pre.ev)
     /\ 0 <= op.event /\ op.event < Last(pre.ev))
    => /\ op.raised = ""
       /\ IF op.event \in Range(Slice(pre.ev, 0, Len(pre.ev) - 1))
          THEN Len(indices) = Len(pre.idx) /\ events = pre.ev
          ELSE Len(indices) = Len(pre.idx) + 1 /\ events = Inserted(pre.ev, op.event)
       /\ StrictlyIncreasing(events)
       /\ ValueFrom(Cur, op.event) = op.value
       /\ \A d \in QueryDumps :
              IF op.event <= d /\ d < NextBoundary(events, op.event)
              THEN ValueAt(Cur, d) = op.value
              ELSE InRange(pre.ev, d) => ValueAt(Cur, d) = ValueAt(pre, d)
\* A value new to the vocabulary was added strictly inside the first of two
\* segments, and another one at an existing boundary.
C4_WitnessInsert ==
    /\ op.name = "add" /\ op.raised = "" /\ op.value # None
    /\ WellFormed(pre) /\ StrictlyIncreasing(pre.ev)
    /\ Len(pre.idx) = 2
    /\ op.value \notin Range(pre.uv)
    /\ pre.ev[1] < op.event /\ op.event < pre.ev[2]
    /\ Len(indices) = 3
C4_WitnessOverride ==
    /\ op.name = "add" /\ op.raised = "" /\ op.value # None
    /\ WellFormed(pre) /\ StrictlyIncreasing(pre.ev)
    /\ Len(pre.idx) = 2
    /\ op.event = pre.ev[2]
    /\ ValueAt(pre, op.event) # op.value
    /\ Len(indices) = 2
    /\ ValueAt(Cur, op.event) = op.value

\* C5: add without a value. For events[0] <= e < events[-1] with e not a
\* boundary, add(e) succeeds and inserts e at its sorted position with the
\* index that was active at e; the vocabulary is unchanged, getValue(d) is
\* unchanged for every dump, and there is exactly one segment more.
C5_AddDuplicate ==
    (/\ op.name = "add"
     /\ op.value = None
     /\ WellFormed(pre)
     /\ InRange(pre.ev, op.event)
     /\ op.event \notin Range(pre.ev))
    => /\ op.raised = ""
       /\ unique_values = pre.uv
       /\ Len(indices) = Len(pre.idx) + 1
       /\ events = Inserted(pre.ev, op.event)
       /\ LET k == Cardinality({i \in 1..Len(pre.ev) : pre.ev[i] < op.event})
          IN  indices = Slice(pre.idx, 0, k) \o <<At(pre.idx, Holder(pre.ev, op.event))>>
                            \o Slice(pre.idx, k, Len(pre.idx))
       /\ \A d \in QueryDumps : ValueAt(Cur, d) = ValueAt(pre, d)
\* A duplicate event was added inside the second segment of a series whose
\* two segments differ in value.
C5_Witness ==
    /\ op.name = "add" /\ op.value = None /\ op.raised = ""
    /\ WellFormed(pre)
    /\ Len(pre.idx) = 2
    /\ pre.idx[1] # pre.idx[2]
    /\ pre.ev[2] < op.event /\ op.event < pre.ev[3]
    /\ Len(indices) = 3
    /\ indices[3] = pre.idx[2]

\* The 0-based positions of the segments of s that do not hold v, ascending.
Surviving(s, v) == nonzero([i \in 1..Len(s.idx) |-> At(s.uv, s.idx[i]) # v])
\* s.uv without v.
Without(uv, v) == SelectSeq(uv, LAMBDA x : x # v)
\* What the claims about remove share: the vocabulary loses v and keeps its
\* order, every index is valid, the surviving segments keep their start and
\* their value, the sentinel stays, and the segment count drops by the number
\* of segments that held v.
RemoveCommon ==
    LET kept == Surviving(pre, op.value)
    IN  /\ op.raised = ""
        /\ unique_values = Without(pre.uv, op.value)
        /\ \A i \in 1..Len(indices) : indices[i] \in 0..(Len(unique_values) - 1)
        /\ Len(indices) = Len(pre.idx) - Cardinality({i \in 1..Len(pre.idx) : At(pre.uv, pre.idx[i]) = op.value})
        /\ Len(indices) = Len(kept)
        /\ Len(events) = Len(kept) + 1
        /\ \A k \in 1..Len(kept) :
               /\ At(unique_values, indices[k]) = At(pre.uv, At(pre.idx, kept[k]))
               /\ events[k] = At(pre.ev, kept[k])
        /\ Last(events) = Last(pre.ev)
RemovePresent == op.name = "remove" /\ WellFormed(pre) /\ op.value \in Range(pre.uv)
RemoveAbsent == op.name = "remove" /\ WellFormed(pre) /\ op.value \notin Range(pre.uv)

\* C6 as stated: remove(v) of a present value deletes the vocabulary entry,
\* remaps the indices, and merges each segment that held v into the NEXT
\* segment: a dump that v covered, with a surviving segment after it, reads as
\* the value of the first surviving segment after it (stated here of series
\* whose events strictly increase, where no segment is empty). remove of an
\* absent value changes nothing.
C6_Original ==
    /\ RemoveAbsent => Cur = pre
    /\ (RemovePresent /\ StrictlyIncreasing(pre.ev)) =>
           /\ RemoveCommon
           /\ \A d \in Dumps :
                  (/\ ValueAt(pre, d) = op.value
                   /\ \E j \in Range(Surviving(pre, op.value)) : j > Holder(pre.ev, d))
                  => ValueAt(Cur, d) =
                         At(pre.uv, At(pre.idx,
                             CHOOSE j \in Range(Surviving(pre, op.value)) :
                                 /\ j > Holder(pre.ev, d)
                                 /\ \A m \in Range(Surviving(pre, op.value)) :
                                        m > Holder(pre.ev, d) => j <= m))
\* C6 as amended: remove(v) of a present value deletes the vocabulary entry,
\* remaps the indices, and merges each segment that held v into the PRECEDING
\* surviving segment by dropping the boundary at which the v segment started:
\* a dump that v covered reads as the value of the last surviving segment
\* before it, and is out of range when there is none. remove of an absent
\* value changes nothing.
C6_RemoveMergesBackward ==
    /\ RemoveAbsent => Cur = pre
    /\ RemovePresent =>
           /\ RemoveCommon
           /\ \A d \in Dumps :
                  ValueAt(pre, d) = op.value
                  => ValueAt(Cur, d) =
                         IF \E j \in Range(Surviving(pre, op.value)) : j < Holder(pre.ev, d)
                         THEN At(pre.uv, At(pre.idx,
                                  CHOOSE j \in Range(Surviving(pre, op.value)) :
                                      /\ j < Holder(pre.ev, d)
                                      /\ \A m \in Range(Surviving(pre, op.value)) :
                                             m < Holder(pre.ev, d) => m <= j))
                         ELSE None
\* The first vocabulary entry was removed from a series of three segments
\* whose middle segment held it, between segments of the other value.
C6_Witness ==
    /\ RemovePresent /\ op.raised = ""
    /\ Len(pre.idx) = 3
    /\ pre.idx = <<1, 0, 1>>
    /\ StrictlyIncreasing(pre.ev)
    /\ op.value = pre.uv[1]
    /\ indices = <<0, 0>>

\* No two adjacent segments of s have the same index.
RepeatFree(s) == \A i \in 1..(Len(s.idx) - 1) : s.idx[i] # s.idx[i + 1]

\* C7: remove_repeats is idempotent. After remove_repeats on a well-formed
\* series (of any number of segments), a second remove_repeats leaves events,
\* indices and vocabulary as the first left them; and on a series with no two
\* adjacent segments of the same index the call changes nothing.
C7_RemoveRepeatsIdempotent ==
    (op.name = "remove_repeats" /\ WellFormed(pre))
    => /\ remove_repeats(Cur).s = Cur
       /\ RepeatFree(Cur)
       /\ RepeatFree(pre) => Cur = pre
\* remove_repeats collapsed a repeat and left at least two segments.
C7_Witness ==
    /\ op.name = "remove_repeats" /\ op.raised = ""
    /\ WellFormed(pre)
    /\ Len(indices) = 2
    /\ Len(pre.idx) = 3

\* b is a segment start with no event of evs within dist of it.
FarFromAll(evs, b, dist) == \A i \in 1..Len(evs) : Abs(evs[i] - b) > dist
\* C8: add_unmatched(boundaries, tolerance). A boundary gets a new event,
\* carrying the index active there, exactly when its distance to every event
\* existing before the call exceeds the tolerance and it lies in
\* [events[0], events[-1]); nothing else changes: boundaries within tolerance
\* insert nothing, unmatched boundaries out of range are skipped without an
\* error and without ending the loop, and every dump keeps its value.
\* Events [0,5,10] with boundaries [0,3,6,10] and tolerance 1 become
\* [0,3,5,10].
C8_Example ==
    LET s == CategoricalData(<<"a", "b">>, <<0, 5, 10>>)
        r == add_unmatched(s, <<0, 3, 6, 10>>, 1)
    IN  /\ r.raised = ""
        /\ r.s.ev = <<0, 3, 5, 10>>
        /\ r.s.idx = <<0, 0, 1>>
        /\ \A d \in 0..9 : ValueAt(r.s, d) = ValueAt(s, d)
C8_AddUnmatched ==
    /\ C8_Example
    /\ (op.name = "add_unmatched" /\ WellFormed(pre))
       => LET new == {b \in Range(op.seq) : FarFromAll(pre.ev, b, op.dist) /\ InRange(pre.ev, b)}
          IN  /\ op.raised = ""
              /\ unique_values = pre.uv
              /\ WellFormed(Cur)
              /\ Len(events) = Len(pre.ev) + Cardinality(new)
              /\ \A x \in Dumps :
                     Count(events, x) = Count(pre.ev, x) + (IF x \in new THEN 1 ELSE 0)
              /\ \A b \in new :
                     \E i \in 1..Len(indices) :
                         events[i] = b /\ indices[i] = At(pre.idx, Holder(pre.ev, b))
              /\ \A d \in QueryDumps : ValueAt(Cur, d) = ValueAt(pre, d)
\* Of two unmatched boundaries the first lay before events[0] and was
\* skipped, the second lay in range and was inserted.
C8_Witness ==
    /\ op.name = "add_unmatched" /\ op.raised = ""
    /\ WellFormed(pre)
    /\ Len(op.seq) >= 2
    /\ FarFromAll(pre.ev, op.seq[1], op.dist) /\ op.seq[1] < pre.ev[1]
    /\ FarFromAll(pre.ev, op.seq[2], op.dist) /\ InRange(pre.ev, op.seq[2])
    /\ op.seq[1] \notin Range(events)
    /\ op.seq[2] \in Range(events)
    /\ Len(events) = Len(pre.ev) + 1
\* A boundary two dumps away from the nearest event was inserted under
\* tolerance 1, one a single dump away was not.
C8_WitnessTolerance ==
    /\ op.name = "add_unmatched" /\ op.dist = 1
    /\ WellFormed(pre)
    /\ \E b \in Range(op.seq) : b \in Range(events) /\ b \notin Range(pre.ev)
    /\ \E b \in Range(op.seq) : b \notin Range(events) /\ InRange(pre.ev, b)

\* C9: after align(boundaries) with strictly increasing boundaries, every
\* event of the series, the sentinel included, is one of the boundaries, and
\* the series has at most len(boundaries) - 1 segments.
C9_AlignSubset ==
    (op.name = "align" /\ WellFormed(pre) /\ StrictlyIncreasing(op.seq))
    => /\ op.raised = ""
       /\ Range(events) \subseteq Range(op.seq)
       /\ Len(events) >= 1
       /\ Len(indices) = Len(events) - 1
       /\ Len(indices) <= Len(op.seq) - 1
\* align moved a series of three segments, none of whose events was a
\* boundary, onto three boundaries and kept two segments.
C9_Witness ==
    /\ op.name = "align" /\ WellFormed(pre)
    /\ Len(pre.idx) = 3
    /\ Len(op.seq) = 3
    /\ \E i \in 1..Len(pre.ev) : pre.ev[i] \notin Range(op.seq)
    /\ Len(indices) = 2

\* The boundary nearest to dump e, the lower one of two equally near.
SnapTo(segments, e) ==
    CHOOSE b \in Range(segments) :
        \A c \in Range(segments) :
            \/ Abs(e - b) < Abs(e - c)
            \/ (Abs(e - b) = Abs(e - c) /\ b <= c)
\* The 0-based positions of the real events of s (the sentinel excluded) that
\* move to boundary b.
Landing(s, segments, b) == {i \in 0..(Len(s.idx) - 1) : SnapTo(segments, At(s.ev, i)) = b}
Latest(S) == CHOOSE i \in S : \A j \in S : j <= i

\* C10: align moves each event to its nearest boundary and keeps the last of
\* the events that land on one boundary: for every boundary b that receives a
\* real event and lies below the moved sentinel, exactly one segment of the
\* result starts at b, with the value of the latest event that moved to b; and
\* the result has no other segment.
C10_AlignKeepsLast ==
    (op.name = "align" /\ WellFormed(pre) /\ StrictlyIncreasing(op.seq))
    => LET hit == {b \in Range(op.seq) :
                      /\ Landing(pre, op.seq, b) # {}
                      /\ b < SnapTo(op.seq, Last(pre.ev))}
       IN  /\ Last(events) = SnapTo(op.seq, Last(pre.ev))
           /\ \A b \in hit :
                  /\ Count(Slice(events, 0, Len(indices)), b) = 1
                  /\ ValueFrom(Cur, b) = At(pre.uv, At(pre.idx, Latest(Landing(pre, op.seq, b))))
           /\ Len(indices) = Cardinality(hit)
\* Two events of different values moved to one boundary below the moved
\* sentinel, and the segment there has the later value.
C10_Witness ==
    /\ op.name = "align" /\ WellFormed(pre) /\ StrictlyIncreasing(op.seq)
    /\ Len(pre.idx) >= 2
    /\ pre.idx[1] # pre.idx[2]
    /\ pre.ev[1] < pre.ev[2]
    /\ SnapTo(op.seq, pre.ev[1]) = SnapTo(op.seq, pre.ev[2])
    /\ SnapTo(op.seq, pre.ev[2]) < SnapTo(op.seq, Last(pre.ev))
    /\ Len(indices) >= 1
    /\ ValueFrom(Cur, SnapTo(op.seq, pre.ev[2])) = At(pre.uv, pre.idx[2])

\* ---------------------------------------------------------------- partition
\* partition was called with boundaries inside [events[0], events[-1]] (the
\* boundaries of SegmentStarts are strictly increasing).
PartitionedInRange ==
    /\ op.name = "partition"
    /\ events[1] <= op.seq[1]
    /\ Last(op.seq) <= Last(events)
\* b lies strictly inside a segment of the series: past its first event,
\* before its sentinel, and on no event.
StrictlyInside(evs, b) == evs[1] < b /\ b < Last(evs) /\ \A i \in 1..Len(evs) : evs[i] # b

\* C11: partition(boundaries) with strictly increasing b[0..K] inside
\* [events[0], events[-1]] returns K series in order; the k-th has
\* events[0] = 0, events[-1] = b[k+1] - b[k], one index less than events, and
\* at every t in [0, b[k+1] - b[k]) the value the parent has at b[k] + t; when
\* b[k] lies strictly inside a parent segment the series starts with an event
\* at 0 carrying that segment's value.
C11_Partition ==
    PartitionedInRange =>
        /\ op.raised = ""
        /\ Len(split_data) = Len(op.seq) - 1
        /\ \A k \in 1..Len(split_data) :
               LET child == split_data[k]
                   b == op.seq[k]
                   length == op.seq[k + 1] - op.seq[k]
               IN  /\ child.ev[1] = 0
                   /\ Last(child.ev) = length
                   /\ Len(child.idx) = Len(child.ev) - 1
                   /\ \A t \in 0..(length - 1) :
                          /\ ValueAt(Cur, b + t) # None
                          /\ ValueAt(child, t) = ValueAt(Cur, b + t)
                   /\ StrictlyInside(events, b) =>
                          At(child.uv, child.idx[1]) = At(unique_values, At(indices, Holder(events, b)))

\* C11 witness: three boundaries, the first on the first event of a series
\* that starts after dump 0, the second strictly inside a segment that holds
\* another value than the first segment.
C11_Witness ==
    /\ PartitionedInRange
    /\ Len(split_data) = 2
    /\ events[1] > 0
    /\ StrictlyInside(events, op.seq[2])
    /\ At(indices, Holder(events, op.seq[2])) # indices[1]
    /\ Len(split_data[2].idx) >= 2

\* ------------------------------------------------- isolation of the siblings
\* The call on one part changed the vocabulary of that part: an add of a value
\* that was not in it, or a remove of a value that was.
VocabularyChanged ==
    \/ op.name = "child.add" /\ op.raised = "" /\ op.value # None
           /\ op.value \notin Range(op.before[op.child].uv)
    \/ op.name = "child.remove" /\ op.value \in Range(op.before[op.child].uv)

\* C12: isolation of partitioned siblings. After a vocabulary-changing call
\* (add of a new value, remove of a present value) on one series returned by
\* partition, the vocabulary and the value at every dump of the parent and of
\* every other series returned are what they were before the call.
C12_Isolation ==
    VocabularyChanged =>
        /\ unique_values = pre.uv
        /\ \A d \in Dumps : ValueAt(Cur, d) = ValueAt(pre, d)
        /\ \A j \in 1..Len(split_data) :
               j # op.child =>
                   /\ split_data[j].uv = op.before[j].uv
                   /\ \A d \in Dumps : ValueAt(split_data[j], d) = ValueAt(op.before[j], d)

\* ----------------------------------------------- partition then concatenate
\* The series covers [0, L) with L >= 1, was cut at strictly increasing
\* boundaries from 0 to L, and the parts were concatenated with
\* allow_repeats = r.
RoundTrip(r) ==
    /\ op.name = "concatenate_categorical"
    /\ op.allow_repeats = r
    /\ op.seq # <<>>
    /\ events[1] = 0
    /\ Last(events) >= 1
    /\ op.seq[1] = 0
    /\ Last(op.seq) = Last(events)

\* C13: partition/concatenate round trip. For a series covering [0, L) and
\* strictly increasing boundaries from 0 to L,
\* concatenate(partition(boundaries), allow_repeats=True) has events[-1] = L
\* and at every dump d in [0, L) the value the original series has at d.
C13_RoundTrip ==
    RoundTrip(TRUE) =>
        /\ data.raised = ""
        /\ Last(data.s.ev) = Last(events)
        /\ \A d \in 0..(Last(events) - 1) :
               /\ ValueAt(Cur, d) # None
               /\ ValueAt(data.s, d) = ValueAt(Cur, d)

\* C13 witness: a series of two values cut into three parts, one cut strictly
\* inside a segment, so that the result has a boundary the original has not.
C13_Witness ==
    /\ RoundTrip(TRUE)
    /\ Len(split_data) = 3
    /\ Len(unique_values) = 2
    /\ \E k \in 2..3 : StrictlyInside(events, op.seq[k])
    /\ Len(data.s.ev) > Len(events)

\* -------------------------------------------------------------- concatenation
\* concatenate_categorical was called on n series built on their own.
Concatenated(n) ==
    /\ op.name = "concatenate_categorical"
    /\ op.seq = <<>>
    /\ Len(split_data) = n

\* C14: concatenation of two series a and b covering [0, La) and [0, Lb), each
\* starting at dump 0, gives a series with events[0] = 0 and
\* events[-1] = La + Lb that reads a.getValue(t) at t < La and
\* b.getValue(t - La) at La <= t < La + Lb, with the default setting and with
\* allow_repeats=True, whatever the two vocabularies.
C14_ConcatenateTwo ==
    Concatenated(2) =>
        LET a == split_data[1]
            b == split_data[2]
            La == Last(a.ev)
            Lb == Last(b.ev)
        IN  /\ data.raised = ""
            /\ data.s.ev[1] = 0
            /\ Last(data.s.ev) = La + Lb
            /\ \A t \in 0..(La - 1) :
                   ValueAt(a, t) # None /\ ValueAt(data.s, t) = ValueAt(a, t)
            /\ \A t \in La..(La + Lb - 1) :
                   ValueAt(b, t - La) # None /\ ValueAt(data.s, t) = ValueAt(b, t - La)

\* C14 witness: two series whose vocabularies list the same two values in
\* opposite orders, joined with the default setting.
C14_Witness ==
    /\ Concatenated(2)
    /\ ~op.allow_repeats
    /\ Len(split_data[1].uv) = 2
    /\ split_data[2].uv = <<split_data[1].uv[2], split_data[1].uv[1]>>
    /\ Len(split_data[2].idx) = 2
    /\ data.raised = ""

\* C15: concatenation of a list holding one series s returns s itself: the
\* same object, its events, indices and vocabulary as they were, repeated
\* values included, whatever allow_repeats is.
C15_ConcatenateOne ==
    [][(op.name = "idle" /\ Len(split_data) = 1) =>
           /\ data'.raised = ""
           /\ data'.alias = 1
           /\ data'.s = split_data[1]
           /\ split_data' = split_data]_vars

\* C15 witness: a single series with two adjacent segments of one value,
\* returned by the default concatenation with the repeat still in it.
C15_Witness ==
    /\ Concatenated(1)
    /\ ~op.allow_repeats
    /\ data.alias = 1
    /\ ~RepeatFree(data.s)

\* The value of each segment of s, in order.
SegmentValues(s) == [i \in 1..Len(s.idx) |-> At(s.uv, s.idx[i])]
\* The dump at which part n of the list starts in the concatenation: the total
\* length of the parts before it.
JoinAt(split, n) == TotalLength(SubSeq(split, 1, n - 1))
\* Every boundary of every part (sentinels apart), offset to its place in the
\* concatenation, in order.
OffsetBoundaries(split) ==
    Flatten([n \in 1..Len(split) |->
                [i \in 1..(Len(split[n].ev) - 1) |-> split[n].ev[i] + JoinAt(split, n)]])

C16_WitnessAllowed ==
    /\ Concatenated(2)
    /\ op.allow_repeats
    /\ Last(SegmentValues(split_data[1])) = SegmentValues(split_data[2])[1]
    /\ Last(split_data[1].ev) \in Range(data.s.ev)
    /\ ~RepeatFree(data.s)

\* ------------------------------------------------------------ the discretizer
\* sensor_to_categorical has returned.
Discretized == op.name = "sensor_to_categorical"

\* C17: the output of the discretizer is well formed. For every time-ordered
\* stream of zero or more sensor events, every grid of N >= 1 dumps and every
\* choice of initial_value, transform, allow_repeats and greedy_values, the
\* result has events[0] = 0, events[-1] = N, non-decreasing events, one index
\* less than events, and a value at every dump of [0, N).
C17_WellFormedOutput ==
    Discretized =>
        /\ data.s.ev[1] = 0
        /\ Last(data.s.ev) = op.args.N
        /\ NonDecreasingSeq(data.s.ev)
        /\ Len(data.s.idx) = Len(data.s.ev) - 1
        /\ \A d \in 0..(op.args.N - 1) : ValueAt(data.s, d) # None

\* The dump each sensor event of the call maps to (N: past the last dump).
DumpOf(a) == EventDumps(a.timestamps, a.N)
\* The dumps of the grid to which at least one sensor event maps.
HitDumps(a) == {DumpOf(a)[i] : i \in 1..Len(a.values)} \cap 0..(a.N - 1)
\* The latest of the events selected by S (events are in time order).
LatestOf(S) == CHOOSE i \in S : \A j \in S : j <= i
\* A value as the output shows it: after the transform, if one is given.
Shown(a, v) == IF a.transform.given THEN a.transform.f[v] ELSE v
\* For each dump with events, in order, the shown value of its latest event.
KeptValues(a) ==
    LET hit == SortedSeq(HitDumps(a))
    IN  [k \in 1..Len(hit) |->
            Shown(a, a.values[LatestOf({i \in 1..Len(a.values) : DumpOf(a)[i] = hit[k]})])]
\* seq without the elements that repeat the element before them.
RECURSIVE Collapsed(_)
Collapsed(seq) ==
    IF Len(seq) <= 1 THEN seq
    ELSE LET rest == Collapsed(SubSeq(seq, 1, Len(seq) - 1))
         IN  IF seq[Len(seq)] = seq[Len(seq) - 1] THEN rest ELSE Append(rest, seq[Len(seq)])
\* The initial value takes part: one is given and no event maps to dump 0.
InitialInserted(a) == a.initial_value # None /\ 0 \notin HitDumps(a)
\* The values the output is made of, before repeats are looked at.
EventValues(a) ==
    IF InitialInserted(a) THEN <<Shown(a, a.initial_value)>> \o KeptValues(a) ELSE KeptValues(a)

\* The scenario of C18: values 'x','x','y' at dumps 0, 2, 2 (timestamps at
\* the midtimes of dumps 0, 2, 2) on a grid of 5 dumps, repeats not allowed,
\* give the segments [0,2) -> 'x' and [2,5) -> 'y'.
C18_Example ==
    LET a == [timestamps |-> <<1, 5, 5>>, values |-> <<"x", "x", "y">>, N |-> 5,
              initial_value |-> None, transform |-> [given |-> FALSE, f |-> <<>>],
              allow_repeats |-> FALSE, greedy_values |-> [given |-> FALSE, values |-> {}]]
    IN  /\ DumpOf(a) = <<0, 2, 2, 5>>
        /\ sensor_to_categorical(a) = Series(<<"x", "y">>, <<0, 1>>, <<0, 2, 5>>)

\* C18: of several sensor events that map to one dump only the last is kept,
\* and events that map past the last dump are dropped. The segments of the
\* output carry, in order, the (transformed) value of the latest event of each
\* dump that has events (after the initial value, where that is inserted; with
\* repeats collapsed unless allow_repeats); no boundary lies past N; and,
\* greedy shifts apart, every dump at or after the first event reads the
\* (transformed) value of the latest event mapping at or before it.
C18_KeepLastPerDump ==
    /\ C18_Example
    /\ Discretized =>
           LET a == op.args
           IN  /\ SegmentValues(data.s) = IF a.allow_repeats THEN EventValues(a)
                                          ELSE Collapsed(EventValues(a))
               /\ \A i \in 1..Len(data.s.ev) : data.s.ev[i] <= a.N
               /\ ~a.greedy_values.given =>
                      \A d \in 0..(a.N - 1) :
                          {i \in 1..Len(a.values) : DumpOf(a)[i] <= d} # {} =>
                              ValueAt(data.s, d) =
                                  Shown(a, a.values[LatestOf({i \in 1..Len(a.values) : DumpOf(a)[i] <= d})])

\* C18 witness: two events of different values map to dump 1, a third maps
\* past the last dump, and dump 1 reads the value of the second.
C18_Witness ==
    /\ Discretized
    /\ ~op.args.transform.given
    /\ ~op.args.greedy_values.given
    /\ Len(op.args.values) = 3
    /\ DumpOf(op.args) = <<1, 1, op.args.N, op.args.N>>
    /\ op.args.values[1] # op.args.values[2]
    /\ op.args.values[3] = op.args.values[1]
    /\ \A d \in 1..(op.args.N - 1) : ValueAt(data.s, d) = op.args.values[2]
    /\ op.args.N >= 2

\* The first dump to which a sensor event maps (there is one).
FirstHit(a) == CHOOSE d \in HitDumps(a) : \A e \in HitDumps(a) : d <= e
\* The first real event of the output is dropped as a repeat of the inserted
\* initial value.
FirstRepeatsInitial(a) ==
    ~a.allow_repeats /\ KeptValues(a)[1] = Shown(a, a.initial_value)
\* The first real event follows a greedy initial value and is not greedy
\* itself.
FirstCedesToInitial(a) ==
    /\ a.greedy_values.given
    /\ Shown(a, a.initial_value) \in a.greedy_values.values
    /\ KeptValues(a)[1] \notin a.greedy_values.values
\* What C19 says where no initial value is given or an event maps to dump 0.
DumpZeroCommon(a) ==
    /\ (0 \notin HitDumps(a) /\ a.initial_value = None /\ HitDumps(a) # {}) =>
           /\ data.s.ev[1] = 0
           /\ SegmentValues(data.s)[1] = KeptValues(a)[1]
           /\ data.s.ev[2] > FirstHit(a)
    /\ 0 \in HitDumps(a) =>
           /\ data.s.ev[1] = 0
           /\ SegmentValues(data.s)[1] = KeptValues(a)[1]
           /\ data.s = sensor_to_categorical([a EXCEPT !.initial_value = None])

\* C19 as stated: with no surviving event on dump 0 and an initial_value
\* given, the first segment of the output starts at dump 0 with initial_value
\* and the first real event (where it is not dropped as a repeat) keeps its
\* own dump; with no initial_value the boundary of the first real event is
\* moved to dump 0; with an event on dump 0 the initial_value is not used.
C19_Original ==
    Discretized =>
        LET a == op.args
        IN  /\ DumpZeroCommon(a)
            /\ InitialInserted(a) =>
                   /\ data.s.ev[1] = 0
                   /\ SegmentValues(data.s)[1] = a.initial_value
                   /\ (HitDumps(a) # {} /\ ~FirstRepeatsInitial(a)) =>
                          /\ data.s.ev[2] = FirstHit(a)
                          /\ SegmentValues(data.s)[2] = KeptValues(a)[1]

\* C19: the dump-0 rule comes before the transform, the repeat removal and
\* the greedy shift. With no surviving event on dump 0 and an initial_value
\* given, the first segment of the output starts at dump 0 with the
\* initial_value as the transform shows it, and the first real event either is
\* dropped as a repeat of it, or starts the second segment one dump after its
\* own dump (a greedy initial value followed by a value that is not greedy),
\* or starts the second segment at its own dump; with no initial_value the
\* boundary of the first real event is moved to dump 0; with an event on dump
\* 0 the output is what it is without initial_value.
C19_DumpZeroRule ==
    Discretized =>
        LET a == op.args
        IN  /\ DumpZeroCommon(a)
            /\ InitialInserted(a) =>
                   /\ data.s.ev[1] = 0
                   /\ SegmentValues(data.s)[1] = Shown(a, a.initial_value)
                   /\ HitDumps(a) # {} =>
                          IF FirstRepeatsInitial(a)
                          THEN data.s.ev[2] > FirstHit(a)
                          ELSE /\ data.s.ev[2] = IF FirstCedesToInitial(a) THEN FirstHit(a) + 1
                                                 ELSE FirstHit(a)
                               /\ SegmentValues(data.s)[2] = KeptValues(a)[1]

\* C19 witness: an initial value that the transform changes, inserted before
\* a first real event on dump 1 that keeps its dump.
C19_Witness ==
    /\ Discretized
    /\ InitialInserted(op.args)
    /\ op.args.transform.given
    /\ Shown(op.args, op.args.initial_value) # op.args.initial_value
    /\ HitDumps(op.args) # {}
    /\ ~FirstRepeatsInitial(op.args)
    /\ ~FirstCedesToInitial(op.args)
    /\ data.s.ev[2] = 1
    /\ SegmentValues(data.s)[1] # SegmentValues(data.s)[2]

\* C19 witness, greedy: the first real event cedes its dump to the greedy
\* initial value.
C19_WitnessGreedy ==
    /\ Discretized
    /\ InitialInserted(op.args)
    /\ HitDumps(op.args) # {}
    /\ ~FirstRepeatsInitial(op.args)
    /\ FirstCedesToInitial(op.args)
    /\ data.s.ev[2] = FirstHit(op.args) + 1

\* C20: repeat suppression. Without allow_repeats every event whose value
\* equals that of the event just before it is dropped, the values being those
\* after the transform and the events including an inserted initial value, so
\* that no two consecutive segments of the output have equal values; with
\* allow_repeats every surviving event is kept, repeats of the value before it
\* included.
C20_RepeatSuppression ==
    Discretized =>
        LET a == op.args
        IN  /\ ~a.allow_repeats =>
                   /\ SegmentValues(data.s) = Collapsed(EventValues(a))
                   /\ \A i \in 1..(Len(data.s.idx) - 1) :
                          SegmentValues(data.s)[i] # SegmentValues(data.s)[i + 1]
            /\ a.allow_repeats =>
                   /\ SegmentValues(data.s) = EventValues(a)
                   /\ Len(data.s.idx) = Cardinality(HitDumps(a)) + (IF InitialInserted(a) THEN 1 ELSE 0)

\* C20 witness: two surviving events of different values that the transform
\* makes equal, and an inserted initial value that the transform makes equal
\* to them: one segment is left.
C20_Witness ==
    /\ Discretized
    /\ ~op.args.allow_repeats
    /\ op.args.transform.given
    /\ InitialInserted(op.args)
    /\ Cardinality(HitDumps(op.args)) = 2
    /\ \E i, j \in 1..Len(op.args.values) :
           /\ DumpOf(op.args)[i] < DumpOf(op.args)[j]
           /\ DumpOf(op.args)[j] < op.args.N
           /\ op.args.values[i] # op.args.values[j]
    /\ Len(data.s.idx) = 1

\* C20 witness, repeats allowed: a repeated value keeps its segment.
C20_WitnessAllowed ==
    /\ Discretized
    /\ op.args.allow_repeats
    /\ Len(data.s.idx) = 3
    /\ SegmentValues(data.s)[2] = SegmentValues(data.s)[3]

\* ------------------------------------------------------- greedy precedence
\* The dump of each event the output is made of, before repeats are looked
\* at: dump 0 for an inserted initial value, then each dump with events.
CausingDumps(a) ==
    IF InitialInserted(a) THEN <<0>> \o SortedSeq(HitDumps(a)) ELSE SortedSeq(HitDumps(a))
\* The 1-based positions of the events that start a segment of the output:
\* all of them with allow_repeats, else those that change the value.
Causing(a) ==
    LET vals == EventValues(a)
    IN  SortedSeq({n \in 1..Len(vals) : a.allow_repeats \/ n = 1 \/ vals[n] # vals[n - 1]})
\* The greedy values of the call (none when greedy_values is None).
Greedy(a) == IF a.greedy_values.given THEN a.greedy_values.values ELSE {}

\* The scenario of C21: 'track' at dump 0, 'slew' at dump 4 and 'track' at
\* dump 6 on a grid of 8 dumps with greedy 'slew': the boundaries are 4 and 7.
C21_Example ==
    LET a == [timestamps |-> <<1, 9, 13>>, values |-> <<"track", "slew", "track">>, N |-> 8,
              initial_value |-> None, transform |-> [given |-> FALSE, f |-> <<>>],
              allow_repeats |-> FALSE, greedy_values |-> [given |-> TRUE, values |-> {"slew"}]]
    IN  /\ DumpOf(a) = <<0, 4, 6, 8>>
        /\ sensor_to_categorical(a) = Series(<<"track", "slew">>, <<0, 1, 0>>, <<0, 4, 7, 8>>)

\* C21: greedy-value precedence. Every boundary of the output after the first
\* is caused by one event (the latest sensor event of its dump); where the
\* value changes there from a greedy value to a value that is not greedy the
\* boundary lies exactly one dump after the dump of that event, and every
\* other boundary (non-greedy to greedy, greedy to greedy, non-greedy to
\* non-greedy) lies at the dump of its event.
C21_GreedyPrecedence ==
    /\ C21_Example
    /\ Discretized =>
           LET a == op.args
               keep == Causing(a)
           IN  /\ Len(data.s.idx) = Len(keep)
               /\ \A n \in 2..Len(keep) :
                      /\ SegmentValues(data.s)[n] = EventValues(a)[keep[n]]
                      /\ data.s.ev[n] =
                             IF /\ SegmentValues(data.s)[n - 1] \in Greedy(a)
                                /\ SegmentValues(data.s)[n] \notin Greedy(a)
                             THEN CausingDumps(a)[keep[n]] + 1
                             ELSE CausingDumps(a)[keep[n]]

\* C21 witness: a greedy value on dump 0 followed by an event of a value that
\* is not greedy on dump 1: the boundary is at dump 2 and dump 1 reads the
\* greedy value.
C21_Witness ==
    /\ Discretized
    /\ op.args.greedy_values.given
    /\ ~op.args.transform.given
    /\ op.args.N = 3
    /\ HitDumps(op.args) = {0, 1}
    /\ KeptValues(op.args)[1] \in Greedy(op.args)
    /\ KeptValues(op.args)[2] \notin Greedy(op.args)
    /\ data.s.ev = <<0, 2, 3>>
    /\ ValueAt(data.s, 1) = KeptValues(op.args)[1]

\* C21 witness, the other direction: a change from a value that is not greedy
\* to a greedy value keeps the dump of its event.
C21_WitnessStay ==
    /\ Discretized
    /\ op.args.greedy_values.given
    /\ HitDumps(op.args) = {0, 1}
    /\ KeptValues(op.args)[1] \notin Greedy(op.args)
    /\ KeptValues(op.args)[2] \in Greedy(op.args)
    /\ data.s.ev = <<0, 1, op.args.N>>

\* -------------------------------------------------------------- comparisons
\* C22: comparing a series with a scalar (== or !=) returns one boolean per
\* dump: a sequence of length events[-1] whose entry d is the comparison of
\* the value at dump d with the scalar, for every dump d in [0, events[-1])
\* (a dump without a value compares as None does: unequal to every scalar).
C22_PerDumpComparison ==
    (query.asked /\ query.key.kind \in {"eq", "ne"}) =>
        /\ query.raised = ""
        /\ Len(query.vals) = Last(events)
        /\ \A d \in 0..(Last(events) - 1) :
               query.vals[d + 1] = IF query.key.kind = "eq"
                                   THEN ValueAt(Cur, d) = query.other
                                   ELSE ValueAt(Cur, d) # query.other

\* What holds of every comparison: the length, and the entries of the dumps
\* that a segment covers, from events[0] on.
ComparisonOfCoveredDumps ==
    (query.asked /\ query.key.kind \in {"eq", "ne"}) =>
        /\ query.raised = ""
        /\ Len(query.vals) = Last(events)
        /\ \A d \in events[1]..(Last(events) - 1) :
               /\ ValueAt(Cur, d) # None
               /\ query.vals[d + 1] = IF query.key.kind = "eq"
                                      THEN ValueAt(Cur, d) = query.other
                                      ELSE ValueAt(Cur, d) # query.other

\* ------------------------------------------------------ structural invariants
\* One index less than events, at least one event, every index an index into
\* the vocabulary.
Structured(s) ==
    /\ Len(s.idx) = Len(s.ev) - 1
    /\ Len(s.ev) >= 1
    /\ \A i \in 1..Len(s.idx) : s.idx[i] \in 0..(Len(s.uv) - 1)

\* C23: structural invariant. In every state reachable from a series
\* constructed with len(events) == len(values) + 1 by any sequence of add (at
\* any event from 0 up to and including events[-1], with or without a value),
\* remove, remove_repeats, add_unmatched and align calls,
\* len(indices) == len(events) - 1, len(events) >= 1 and every element of
\* indices is a valid index into unique_values.
C23_StructuralInvariant == Structured(Cur)

\* Every call keeps the structure of a series, the add of a value at the final
\* event apart.
StructureKeptBelowFinalEvent ==
    [][(/\ Structured(Cur)
        /\ ~(op'.name = "add" /\ op'.value # None /\ op'.event = Last(events)))
       => Structured(Cur')]_vars

\* Dump d lies in exactly one segment of s and its lookup succeeds.
Covered(s, d) == Cardinality(Covering(s, d)) = 1 /\ _lookup(s, <<d>>).raised = ""

\* C24 as stated: in every state reached from a series constructed with
\* events[0] == 0 by add, remove, remove_repeats, add_unmatched and align
\* calls, every dump d with 0 <= d < events[-1] lies in exactly one segment and
\* its lookup succeeds.
C24_Original == \A d \in 0..(Last(events) - 1) : Covered(Cur, d)

\* C24: coverage from the first event on. In every state reached from a series
\* constructed with events[0] == 0 by add, remove, remove_repeats,
\* add_unmatched and align calls, every dump d with
\* events[0] <= d < events[-1] lies in exactly one segment and its lookup
\* succeeds; add, remove_repeats and add_unmatched leave events[0] where it
\* was, while remove moves events[0] up to the first surviving event (the
\* final event when none survives) and align moves it to the boundary nearest
\* to it (to the moved final event when no event is left before that).
C24_Coverage ==
    /\ Len(events) >= 1
    /\ \A d \in events[1]..(Last(events) - 1) : Covered(Cur, d)
    /\ (op.name \in {"add", "remove_repeats", "add_unmatched"} /\ pre.ev[1] = 0) => events[1] = 0
    /\ (op.name = "remove" /\ Structured(pre)) =>
           events[1] = IF Surviving(pre, op.value) = <<>> THEN Last(pre.ev)
                       ELSE At(pre.ev, Surviving(pre, op.value)[1])
    /\ (op.name = "align" /\ StrictlyIncreasing(op.seq)) =>
           events[1] = IF Len(indices) = 0 THEN SnapTo(op.seq, Last(pre.ev))
                       ELSE SnapTo(op.seq, pre.ev[1])

\* C24 witness: remove took the value of the first segment of a series that
\* started at dump 0; the series now starts later and is covered from there.
C24_Witness ==
    /\ op.name = "remove"
    /\ Structured(pre)
    /\ pre.ev[1] = 0
    /\ events[1] > 0
    /\ Last(events) > events[1] + 1
    /\ \A d \in events[1]..(Last(events) - 1) : Covered(Cur, d)
    /\ ~Covered(Cur, 0)

\* C24 witness, align: the boundaries start after dump 0 and so does the
\* aligned series.
C24_WitnessAlign ==
    /\ op.name = "align"
    /\ pre.ev[1] = 0
    /\ events[1] > 0
    /\ Len(indices) >= 1
    /\ ~Covered(Cur, 0)

\* C25: ordering invariant. events stays non-decreasing after any sequence of
\* add calls (at any event >= 0: before events[0], on an existing boundary,
\* past the final event), remove, remove_repeats, add_unmatched and align
\* calls (with increasing boundaries) on a series constructed with
\* non-decreasing events.
C25_Ordering == NonDecreasingSeq(events)

\* C25 witness: an add put an event before events[0].
C25_Witness ==
    /\ op.name = "add" /\ op.raised = ""
    /\ op.event < pre.ev[1]
    /\ events = <<op.event>> \o pre.ev
    /\ Len(events) >= 3

\* C25 witness, boundary: an add of a value at an event that occurs twice in
\* events overrode one of the two.
C25_WitnessBoundary ==
    /\ op.name = "add" /\ op.raised = "" /\ op.value # None
    /\ Count(Slice(pre.ev, 0, Len(pre.ev) - 1), op.event) = 2
    /\ op.event < Last(pre.ev)
    /\ events = pre.ev
    /\ indices # pre.idx

\* ------------------------------------------------------------ the vocabulary
\* The elements of a sequence are pairwise distinct.
Distinct(seq) == \A i, j \in 1..Len(seq) : seq[i] = seq[j] => i = j
\* The position of the first occurrence of x in seq.
FirstAt(seq, x) == CHOOSE i \in 1..Len(seq) : seq[i] = x /\ \A j \in 1..(i - 1) : seq[j] # x
\* Segments of s with valid indices carry equal values exactly when they carry
\* equal indices.
EqualValuesEqualIndices(s) ==
    \A i, j \in 1..Len(s.idx) :
        (s.idx[i] < Len(s.uv) /\ s.idx[j] < Len(s.uv)) =>
            ((At(s.uv, s.idx[i]) = At(s.uv, s.idx[j])) <=> (s.idx[i] = s.idx[j]))

\* C26: vocabulary distinctness. In every state reached by construction
\* followed by any sequence of add, remove, remove_repeats, add_unmatched and
\* align calls, unique_values holds pairwise distinct values (add appends a
\* value only when it is not in the vocabulary yet), and the vocabulary of a
\* concatenation holds each value of the input vocabularies once, in the order
\* in which the values first appear in the inputs; so equal segment values
\* have equal indices.
C26_VocabularyDistinct ==
    /\ Distinct(unique_values)
    /\ EqualValuesEqualIndices(Cur)
    /\ (op.name = "add" /\ op.value # None) =>
           unique_values = IF op.value \in Range(pre.uv) THEN pre.uv ELSE Append(pre.uv, op.value)
    /\ (op.name = "concatenate_categorical" /\ data.raised = "") =>
           LET all == split_data[1].uv \o split_data[2].uv
           IN  /\ Distinct(data.s.uv)
               /\ Range(data.s.uv) = Range(all)
               /\ \A i, j \in 1..Len(data.s.uv) :
                      i < j => FirstAt(all, data.s.uv[i]) < FirstAt(all, data.s.uv[j])
               /\ EqualValuesEqualIndices(data.s)

\* C26 witness: a value that was in the vocabulary already was added at a new
\* event, and the vocabulary did not grow.
C26_Witness ==
    /\ op.name = "add" /\ op.raised = "" /\ op.value # None
    /\ op.value \in Range(pre.uv)
    /\ Len(pre.uv) = 2
    /\ StrictlyIncreasing(pre.ev)
    /\ op.event < Last(pre.ev)
    /\ Len(indices) = Len(pre.idx) + 1
    /\ unique_values = pre.uv

\* C26 witness, concatenation: two series whose vocabularies hold the same two
\* values in opposite orders were joined into a vocabulary of two values.
C26_WitnessConcatenate ==
    /\ op.name = "concatenate_categorical" /\ data.raised = ""
    /\ Len(split_data[1].uv) = 2
    /\ split_data[2].uv = <<split_data[1].uv[2], split_data[1].uv[1]>>
    /\ data.s.uv = split_data[1].uv

\* The boundaries at which a segment of the aligned series starts, ascending:
\* those that receive a real event and lie below the moved final event.
HitBoundaries(s, segments) ==
    SortedSeq({b \in Range(segments) :
                  Landing(s, segments, b) # {} /\ b < SnapTo(segments, Last(s.ev))})
\* The values of the segments that survive align, in order: for each such
\* boundary the value of the latest event that moves to it.
SurvivingValues(s, segments) ==
    [k \in 1..Len(HitBoundaries(s, segments)) |->
        At(s.uv, At(s.idx, Latest(Landing(s, segments, HitBoundaries(s, segments)[k]))))]

\* C27: after align the vocabulary is exactly the values of the surviving
\* segments: every vocabulary entry is referenced by at least one index, every
\* surviving segment keeps its value, the values left are in the order they
\* had in the old vocabulary, and every index is valid in the new vocabulary.
C27_AlignPrunes ==
    (op.name = "align" /\ WellFormed(pre) /\ StrictlyIncreasing(op.seq)) =>
        /\ \A k \in 0..(Len(unique_values) - 1) : \E i \in 1..Len(indices) : indices[i] = k
        /\ \A i \in 1..Len(indices) : indices[i] \in 0..(Len(unique_values) - 1)
        /\ SegmentValues(Cur) = SurvivingValues(pre, op.seq)
        /\ Range(unique_values) = Range(SurvivingValues(pre, op.seq))
        /\ Distinct(unique_values)
        /\ \A i, j \in 1..Len(unique_values) :
               i < j => FirstAt(pre.uv, unique_values[i]) < FirstAt(pre.uv, unique_values[j])

\* C27 witness: align dropped the only segment of the first vocabulary entry;
\* the entry is gone and the segment of the second entry has index 0.
C27_Witness ==
    /\ op.name = "align" /\ WellFormed(pre) /\ StrictlyIncreasing(op.seq)
    /\ Len(pre.uv) = 2
    /\ pre.idx = <<0, 1>>
    /\ StrictlyIncreasing(pre.ev)
    /\ unique_values = <<pre.uv[2]>>
    /\ indices = <<0>>

\* C27 witness, order: both values survive and keep their order although the
\* first surviving segment carries the second of them.
C27_WitnessOrder ==
    /\ op.name = "align" /\ WellFormed(pre) /\ StrictlyIncreasing(op.seq)
    /\ pre.idx = <<0, 1, 0>>
    /\ indices = <<1, 0>>
    /\ unique_values = pre.uv

\* ------------------------------------------------- remove, seen dump by dump
\* The surviving segments of s (those not holding v) that start at or before
\* dump d, as 0-based positions.
SurvivingUpTo(s, v, d) == {i \in Range(Surviving(s, v)) : At(s.ev, i) <= d}

\* C28: the effect of remove on the value of each dump. After remove(v) of a
\* present value, a dump that a segment holding v covered reads the value of
\* the nearest surviving segment that starts before it, and is out of range
\* (below the new events[0]) when there is none; events[0] is the start of the
\* first surviving segment (the final event when no segment survives); every
\* other dump reads what it read before; the final event events[-1] is
\* unchanged.
C28_RemovePerDump ==
    RemovePresent =>
        /\ op.raised = ""
        /\ Last(events) = Last(pre.ev)
        /\ events[1] = IF Surviving(pre, op.value) = <<>> THEN Last(pre.ev)
                       ELSE At(pre.ev, Surviving(pre, op.value)[1])
        /\ \A d \in QueryDumps :
               IF ValueAt(pre, d) = op.value
               THEN IF SurvivingUpTo(pre, op.value, d) = {}
                    THEN /\ _lookup(Cur, <<d>>).raised = "IndexError"
                         /\ d < events[1]
                    ELSE ValueAt(Cur, d) =
                             At(pre.uv, At(pre.idx, Latest(SurvivingUpTo(pre, op.value, d))))
               ELSE ValueAt(Cur, d) = ValueAt(pre, d)

\* C28 witness: the removed value held the first and the third of three
\* segments: the first dumps are out of range now and the dumps of the third
\* segment read the value of the second.
C28_Witness ==
    /\ RemovePresent /\ op.raised = ""
    /\ pre.idx = <<0, 1, 0>>
    /\ StrictlyIncreasing(pre.ev)
    /\ op.value = pre.uv[1]
    /\ events = <<pre.ev[2], pre.ev[4]>>
    /\ ValueAt(Cur, pre.ev[1]) = None
    /\ ValueAt(Cur, pre.ev[3]) = pre.uv[2]

\* ------------------------------------------------------------- a failed add
\* C29: a failed add is atomic. When add(event, value) raises (an event past
\* the final event with an explicit value, or an event outside
\* [events[0], events[-1]) without a value), events, indices and the
\* vocabulary are what they were before the call, also when the value was not
\* in the vocabulary.
C29_FailedAddAtomic ==
    (op.name = "add" /\ op.raised # "") => Cur = pre

\* What a failed add leaves alone: events and indices always, and the
\* vocabulary unless the call named a value that was not in it.
FailedAddKeeps ==
    (op.name = "add" /\ op.raised # "") =>
        /\ events = pre.ev
        /\ indices = pre.idx
        /\ (op.value = None \/ op.value \in Range(pre.uv)) => unique_values = pre.uv
        /\ (op.value # None /\ op.value \notin Range(pre.uv)) =>
               unique_values = Append(pre.uv, op.value)

\* ------------------------------------------------------------ ties in align
\* The boundaries nearest to dump e: one, or two when e lies midway between
\* them.
NearestSet(segments, e) ==
    {b \in Range(segments) : \A c \in Range(segments) : Abs(e - b) <= Abs(e - c)}
Tied(segments, e) == Cardinality(NearestSet(segments, e)) = 2
Lower(S) == CHOOSE b \in S : \A c \in S : b <= c
Upper(S) == CHOOSE b \in S : \A c \in S : c <= b

\* C30: the tie-break of align. An event midway between two boundaries moves
\* to the lower of the two: the events of the aligned series are the lower
\* nearest boundaries of the old events (the upper one of a tie appears only
\* when another event has it as its lower nearest boundary), the final event
\* included, and a tied event that is the latest to reach its boundary gives
\* the segment starting there its value.
C30_AlignTieBreak ==
    (op.name = "align" /\ WellFormed(pre) /\ StrictlyIncreasing(op.seq)) =>
        /\ Range(events) = {Lower(NearestSet(op.seq, pre.ev[i])) : i \in 1..Len(pre.ev)}
        /\ Last(events) = Lower(NearestSet(op.seq, Last(pre.ev)))
        /\ \A i \in 1..Len(pre.idx) :
               LET b == Lower(NearestSet(op.seq, pre.ev[i]))
               IN  (/\ Tied(op.seq, pre.ev[i])
                    /\ b < Last(events)
                    /\ \A j \in (i + 1)..Len(pre.idx) : Lower(NearestSet(op.seq, pre.ev[j])) > b)
                   => ValueFrom(Cur, b) = At(pre.uv, pre.idx[i])

\* C30 witness: the second event of a series lay midway between two
\* boundaries; its segment starts at the lower one and no event is at the
\* upper one.
C30_Witness ==
    /\ op.name = "align" /\ WellFormed(pre) /\ StrictlyIncreasing(op.seq)
    /\ Len(pre.idx) = 2
    /\ pre.idx[1] # pre.idx[2]
    /\ ~Tied(op.seq, pre.ev[1])
    /\ Tied(op.seq, pre.ev[2])
    /\ events = <<Lower(NearestSet(op.seq, pre.ev[1])), Lower(NearestSet(op.seq, pre.ev[2])),
                  Lower(NearestSet(op.seq, pre.ev[3]))>>
    /\ Upper(NearestSet(op.seq, pre.ev[2])) \notin Range(events)
    /\ StrictlyIncreasing(events)
    /\ ValueAt(Cur, events[2]) = At(pre.uv, pre.idx[2])
====
